---- MODULE Spec2Model ----
(***************************************************************************)
(* LoRA training pipeline of invokeai/backend/training/lora/               *)
(* lora_training_diffusers.py: the checkpoint manager (_save_checkpoint),  *)
(* and run_lora_training as a multi-process state machine.                 *)
(***************************************************************************)
EXTENDS Integers, Sequences, FiniteSets, TLC

(***************************************************************************)
(* Bounds of the model.                                                    *)
(***************************************************************************)
MaxCheckpoints == 2
MaxIdx == 4

\* Width of the zero padded index in a checkpoint name: f"{idx:0>8}".
PadWidth == 8

\* Python's None for optional integers is the empty sequence, a set value n
\* is <<n>>; for optional strings it is the string "None".
NoneInt == <<>>
SomeInt(n) == <<n>>
IsNone(x) == x = <<>>
IntOf(x) == x[1]

Min(a, b) == IF a <= b THEN a ELSE b

(***************************************************************************)
(* Names of directory entries are sequences of tokens: a token is a run of *)
(* characters without '-' or '.', a "-", a ".", or a single decimal digit. *)
(***************************************************************************)
DigitChars == <<"0", "1", "2", "3", "4", "5", "6", "7", "8", "9">>

DigitVal(c) == (CHOOSE i \in 1..10 : DigitChars[i] = c) - 1

\* str(n) for n >= 0.
RECURSIVE Str(_)
Str(n) == IF n < 10 THEN <<DigitChars[n + 1]>>
          ELSE Str(n \div 10) \o <<DigitChars[(n % 10) + 1]>>

\* The format spec 0>w: right-align, fill with '0' up to width w.
RECURSIVE ZeroPad(_, _)
ZeroPad(s, w) == IF Len(s) >= w THEN s ELSE ZeroPad(<<"0">> \o s, w)

\* int(s) of a sequence of decimal digits.
RECURSIVE ParseInt(_)
ParseInt(s) == IF Len(s) = 0 THEN 0
               ELSE 10 * ParseInt(SubSeq(s, 1, Len(s) - 1)) + DigitVal(s[Len(s)])

\* full_prefix = f"checkpoint_{prefix}-"
FullPrefix(prefix) == <<"checkpoint_", prefix, "-">>

\* d.startswith(full_prefix)
StartsWith(d, pre) == /\ Len(d) >= Len(pre)
                      /\ SubSeq(d, 1, Len(pre)) = pre

\* os.path.splitext(x)[0]: cut at the last "." unless it leads the name.
SplitExtRoot(x) ==
    LET dots == {i \in 2..Len(x) : x[i] = "."}
    IN  IF dots = {} THEN x
        ELSE SubSeq(x, 1, (CHOOSE i \in dots : \A j \in dots : j <= i) - 1)

\* x.split("-")[-1]: what follows the last "-".
LastDashField(x) ==
    LET dashes == {i \in 1..Len(x) : x[i] = "-"}
    IN  IF dashes = {} THEN x
        ELSE SubSeq(x, (CHOOSE i \in dashes : \A j \in dashes : j <= i) + 1, Len(x))

\* key=lambda x: int(os.path.splitext(x)[0].split("-")[-1])
SortKey(x) == ParseInt(LastDashField(SplitExtRoot(x)))

\* sorted(checkpoints, key=...): ascending by key.
RECURSIVE SortedByKey(_)
SortedByKey(S) ==
    IF S = {} THEN <<>>
    ELSE LET m == CHOOSE x \in S : \A y \in S : SortKey(x) <= SortKey(y)
         IN  <<m>> \o SortedByKey(S \ {m})

\* save_path = os.path.join(out_dir, f"{full_prefix}{idx:0>8}")
CheckpointName(prefix, idx) == FullPrefix(prefix) \o ZeroPad(Str(idx), PadWidth)

\* checkpoints = [d for d in os.listdir(out_dir) if d.startswith(full_prefix)]
CheckpointsOf(dir, prefix) == {d \in dir : StartsWith(d, FullPrefix(prefix))}

\* python's slice s[-n:] for n >= 1
SliceLast(s, n) == IF n <= 0 THEN <<>> ELSE SubSeq(s, Len(s) - Min(n, Len(s)) + 1, Len(s))

\* python's slice s[0:n]
Slice0(s, n) == IF n <= 0 THEN <<>> ELSE SubSeq(s, 1, Min(n, Len(s)))

\* checkpoints_to_remove of _save_checkpoint, as a set of names.
CheckpointsToRemove(dir, prefix, max_checkpoints) ==
    IF IsNone(max_checkpoints) THEN {}
    ELSE LET checkpoints == SortedByKey(CheckpointsOf(dir, prefix))
             num_to_remove == Len(checkpoints) - IntOf(max_checkpoints) + 1
         IN  IF Len(checkpoints) >= IntOf(max_checkpoints)
             THEN {Slice0(checkpoints, num_to_remove)[i] :
                       i \in 1..Len(Slice0(checkpoints, num_to_remove))}
             ELSE {}

\* The directory after the eviction loop of _save_checkpoint.
EvictCheckpoints(dir, prefix, max_checkpoints) ==
    dir \ CheckpointsToRemove(dir, prefix, max_checkpoints)

\* accelerator.save_state(save_path): the checkpoint directory exists afterwards.
SaveState(dir, prefix, idx) == dir \cup {CheckpointName(prefix, idx)}

\* One whole call of _save_checkpoint.
SaveCheckpoint(dir, prefix, idx, max_checkpoints) ==
    SaveState(EvictCheckpoints(dir, prefix, max_checkpoints), prefix, idx)

\* Other entries of the output directory.
ConfigJson == <<"config", ".", "json">>
LogsDir == <<"logs">>
ValidationDir == <<"validation">>


(***************************************************************************)
(* run_lora_training with num_processes data-parallel processes, each      *)
(* executing the same function on the same train_config.                   *)
(***************************************************************************)
MaxProcs == 2
MaxTrainSteps == 2
MaxAccum == 2
MaxLoaderLen == 2

VARIABLES
    train_config,      \* the LoraTrainingConfig passed to every process
    num_processes,     \* accelerator.num_processes
    loader_len,        \* len(data_loader) after accelerator.prepare
    pc,                \* per process: the statement it executes next
    error,             \* per process: the exception that ended it
    out_dir,           \* per process: its local out_dir
    fs,                \* the entries of every run directory under base_output_dir
    made,              \* the run directories that exist
    wrote,             \* the processes that created or wrote something on disk
    loaded,            \* per process: what it has constructed so far
    dataset_source,    \* per process: the loader datasets.load_dataset was given
    sched_prediction_type,  \* per process: noise_scheduler.config.prediction_type
    epoch, step, global_step,     \* per process: the loop's locals
    accum_step, sync_gradients,   \* per process: accelerator.step, .sync_gradients
    batches, losses, backwards, optimizer_steps,  \* per process: work done so far
    barrier_point,     \* per process: the checkpoint barrier it entered last
    known_models,      \* model_manager.model_names(), in the registry's order
    column_names,      \* dataset["train"].column_names of the configured dataset
    model_meta,        \* per process: the registry entry _load_models resolved
    weight_dtype,      \* per process: the result of _get_weight_type
    params,            \* per process: requires_grad and train/eval mode of the modules
    learning_rate,     \* per process: train_config.learning_rate of its config object
    config_writes,     \* per process: assignments to attributes of train_config
    grads,             \* per process: micro-batch gradients accumulated in .grad
    ops,               \* per process: what lines 962-979 did in the last micro-batch
    scheduler_steps,   \* per process: steps the learning rate schedule has taken
    loss, avg_loss,    \* per process: the loss of the last micro-batch, and gathered
    train_loss,        \* per process: the running loss
    loss_hist,         \* per process: avg_loss of every micro-batch so far
    step_marks,        \* per process: micro-batches done at each optimizer step
    logged             \* per process: train_loss logged at global step 1, 2, ...

gradvars == <<grads, ops, scheduler_steps>>
lossvars == <<loss, avg_loss, train_loss, loss_hist, step_marks, logged>>

\* What a process builds before the loop.
startvars == <<model_meta, weight_dtype, learning_rate, config_writes>>

runvars == <<train_config, num_processes, loader_len, pc, error, out_dir, fs, made,
             wrote, loaded, dataset_source, sched_prediction_type, epoch, step,
             global_step, accum_step, sync_gradients, batches, losses, backwards,
             optimizer_steps, barrier_point, known_models, column_names, params, startvars,
             gradvars, lossvars>>

Procs == 0..(MaxProcs - 1)

\* accelerator.is_main_process: the process of index 0.
MainProcess == 0

NoError == [type |-> "none", about |-> "", value |-> ""]
NoDir == -1
NoPoint == <<"none", 0>>

\* No registry entry: the None of next(..., None).
NoModel == [name |-> <<>>, format |-> "none"]

\* No torch.nn.Module exists yet.
NoParams == [trainable |-> {}, frozen |-> {}, training |-> {}]

\* The run's variables while only _save_checkpoint is exercised.
RunIdle ==
    /\ train_config = [dataset_name |-> "None"]
    /\ num_processes = 0
    /\ loader_len = 0
    /\ pc = [p \in Procs |-> "off"]
    /\ error = [p \in Procs |-> NoError]
    /\ out_dir = [p \in Procs |-> NoDir]
    /\ fs = [d \in Procs |-> {}]
    /\ made = {}
    /\ wrote = {}
    /\ loaded = [p \in Procs |-> {}]
    /\ dataset_source = [p \in Procs |-> "none"]
    /\ sched_prediction_type = [p \in Procs |-> "none"]
    /\ epoch = [p \in Procs |-> 0]
    /\ step = [p \in Procs |-> 0]
    /\ global_step = [p \in Procs |-> 0]
    /\ accum_step = [p \in Procs |-> 0]
    /\ sync_gradients = [p \in Procs |-> FALSE]
    /\ batches = [p \in Procs |-> 0]
    /\ losses = [p \in Procs |-> 0]
    /\ backwards = [p \in Procs |-> 0]
    /\ optimizer_steps = [p \in Procs |-> 0]
    /\ barrier_point = [p \in Procs |-> NoPoint]
    /\ known_models = <<>>
    /\ column_names = {}
    /\ model_meta = [p \in Procs |-> NoModel]
    /\ weight_dtype = [p \in Procs |-> "none"]
    /\ params = [p \in Procs |-> NoParams]
    /\ learning_rate = [p \in Procs |-> 0]
    /\ config_writes = [p \in Procs |-> 0]
    /\ grads = [p \in Procs |-> 0]
    /\ ops = [p \in Procs |-> <<>>]
    /\ scheduler_steps = [p \in Procs |-> 0]
    /\ loss = [p \in Procs |-> 0]
    /\ avg_loss = [p \in Procs |-> 0]
    /\ train_loss = [p \in Procs |-> 0]
    /\ loss_hist = [p \in Procs |-> <<>>]
    /\ step_marks = [p \in Procs |-> <<>>]
    /\ logged = [p \in Procs |-> <<>>]

(***************************************************************************)
(* One call of add_lora_to_unet_attention_layers.                          *)
(***************************************************************************)
VARIABLES
    block_out_channels,    \* unet.config.block_out_channels
    attn_processor_names,  \* the keys of unet.attn_processors, in dict order
    attn_processor_classes,  \* the classes of the values of unet.attn_processors
    has_sdpa,              \* hasattr(F, "scaled_dot_product_attention")
    unet_lora_attn_procs,  \* the adapters created so far, in creation order
    unet_attn_processors,  \* the processors installed in the network, by position
    lora_pc                \* "off", "loop", "set" (processors installed), "error"

loravars == <<block_out_channels, attn_processor_names, attn_processor_classes,
              has_sdpa, unet_lora_attn_procs, unet_attn_processors, lora_pc>>

LoraIdle ==
    /\ block_out_channels = <<>>
    /\ attn_processor_names = <<>>
    /\ attn_processor_classes = <<>>
    /\ has_sdpa = FALSE
    /\ unet_lora_attn_procs = <<>>
    /\ unet_attn_processors = <<>>
    /\ lora_pc = "off"

(***************************************************************************)
(* One call of tokenize_captions.                                          *)
(***************************************************************************)
VARIABLES
    examples,     \* examples[dataset_caption_column]
    is_train,     \* the is_train argument
    captions,     \* the local list captions
    input_ids,    \* the returned inputs.input_ids, <<>> while nothing is returned
    tc_pc,        \* "off", "loop", "returned", "error"
    tc_error      \* the type of the exception raised, "none" without one

captionvars == <<examples, is_train, captions, input_ids, tc_pc, tc_error>>

CaptionsIdle ==
    /\ examples = <<>>
    /\ is_train = TRUE
    /\ captions = <<>>
    /\ input_ids = <<>>
    /\ tc_pc = "off"
    /\ tc_error = "none"

(***************************************************************************)
(* Two runs of run_lora_training on one configuration and one dataset,     *)
(* one after the other, reduced to the random draws each of them takes.    *)
(***************************************************************************)
VARIABLES
    seed_config,   \* the train_config of both runs, with their len(data_loader)
    entropy,       \* per run: the state its global generators start in
    generators,    \* per run: the state of the global generators of random and torch
    draws,         \* per run: the values drawn so far, each with its statement
    seed_batches,  \* per run: micro-batches done
    seed_pc        \* per run: the statement the run executes next

seedvars == <<seed_config, entropy, generators, draws, seed_batches, seed_pc>>

Runs == {1, 2}

SeedIdle ==
    /\ seed_config = [seed |-> NoneInt]
    /\ entropy = [r \in Runs |-> <<>>]
    /\ generators = [r \in Runs |-> <<>>]
    /\ draws = [r \in Runs |-> <<>>]
    /\ seed_batches = [r \in Runs |-> 0]
    /\ seed_pc = [r \in Runs |-> "off"]

unitvars == <<loravars, captionvars, seedvars>>

VARIABLES ck_dir, ck_max, ck_pc, ck_prefix, ck_idx, ck_written

ckvars == <<ck_dir, ck_max, ck_pc, ck_prefix, ck_idx, ck_written>>

CkptIdle ==
    /\ ck_dir = {}
    /\ ck_max = NoneInt
    /\ ck_pc = "idle"
    /\ ck_prefix = "step"
    /\ ck_idx = 0
    /\ ck_written = [p \in {"step", "epoch"} |-> {}]

Prefixes == {"step", "epoch"}

\* Indices a caller may pass: small ones and one that outgrows the padding.
CheckpointIndices == (1..MaxIdx) \cup {100000000}

MaxCheckpointsValues == {NoneInt} \cup {SomeInt(m) : m \in 0..MaxCheckpoints}

InitCkpt ==
    /\ ck_dir \in {{}, {ConfigJson, LogsDir}}
    /\ ck_max \in MaxCheckpointsValues
    /\ ck_pc = "idle"
    /\ ck_prefix = "step"
    /\ ck_idx = 0
    /\ ck_written = [p \in Prefixes |-> {}]
    /\ RunIdle
    /\ LoraIdle
    /\ CaptionsIdle
    /\ SeedIdle

\* _save_checkpoint, lines 513-545: list, sort and evict.
CkptEvict(prefix, idx) ==
    /\ ck_pc = "idle"
    /\ \A j \in ck_written[prefix] : j < idx
    /\ ck_dir' = EvictCheckpoints(ck_dir, prefix, ck_max)
    /\ ck_prefix' = prefix
    /\ ck_idx' = idx
    /\ ck_pc' = "evicted"
    /\ UNCHANGED <<ck_max, ck_written>>

\* _save_checkpoint, lines 547-550: write the new checkpoint.
CkptWrite ==
    /\ ck_pc = "evicted"
    /\ ck_dir' = SaveState(ck_dir, ck_prefix, ck_idx)
    /\ ck_written' = [ck_written EXCEPT ![ck_prefix] = @ \cup {ck_idx}]
    /\ ck_pc' = "idle"
    /\ UNCHANGED <<ck_max, ck_prefix, ck_idx>>

NextCkpt ==
    \/ \E prefix \in Prefixes, idx \in CheckpointIndices :
           CkptEvict(prefix, idx) /\ UNCHANGED <<runvars, unitvars>>
    \/ CkptWrite /\ UNCHANGED <<runvars, unitvars>>

vars == <<runvars, ckvars, unitvars>>

SpecCkpt == InitCkpt /\ [][NextCkpt]_vars

(***************************************************************************)
(* _save_checkpoint called on a directory that already holds checkpoints,  *)
(* as directories and as files with an extension, of either prefix.        *)
(***************************************************************************)
ExistingStepEntries ==
    {CheckpointName("step", 1),
     CheckpointName("step", 2) \o <<".", "safetensors">>,
     CheckpointName("step", 3)}

ExistingEpochEntries == {CheckpointName("epoch", 1), CheckpointName("epoch", 2)}

InitEvict ==
    /\ \E steps \in SUBSET ExistingStepEntries, epochs \in SUBSET ExistingEpochEntries,
          others \in {{}, {ConfigJson, LogsDir, ValidationDir}} :
           /\ ck_dir = steps \cup epochs \cup others
           /\ ck_written = [p \in Prefixes |->
                               {SortKey(d) : d \in CheckpointsOf(steps \cup epochs, p)}]
    /\ ck_max \in MaxCheckpointsValues
    /\ ck_pc = "idle"
    /\ ck_prefix = "step"
    /\ ck_idx = 0
    /\ RunIdle
    /\ LoraIdle
    /\ CaptionsIdle
    /\ SeedIdle

SpecEvict == InitEvict /\ [][NextCkpt]_vars


(***************************************************************************)
(* Inputs of run_lora_training.                                            *)
(***************************************************************************)
Cadences == {NoneInt, SomeInt(1), SomeInt(2)}

PredictionTypes == {"None", "epsilon", "v_prediction", "unknown_mode"}

\* Strings that are split or compared by suffix are sequences of fragments.
\* Every string is cut at the same places, so that one string ends with
\* another exactly when its fragments end with the other's fragments:
\* 'stable-diffusion-v1-5' is 'stable-' and 'diffusion-v1-5' wherever it occurs.
TrainedModel == <<"stable-", "diffusion-v1-5">>
ModelKey == <<"sd-1", "/", "main", "/">> \o TrainedModel

\* Values of train_config.model.
ModelNames ==
    {ModelKey, TrainedModel, <<"diffusion-v1-5">>, <<"sd-1", "/", "main", "/">>,
     <<"sd-1", "/", "main", "/", "other-model">>}

\* Entries of the model registry: the name of model_names()'s tuple and the
\* model_format of model_info().
RegistryEntries ==
    {[name |-> TrainedModel, format |-> "diffusers"],
     [name |-> TrainedModel, format |-> "checkpoint"],
     [name |-> <<"my-">> \o TrainedModel, format |-> "diffusers"],
     [name |-> <<"other-model">>, format |-> "diffusers"]}

DefaultRegistry == <<[name |-> TrainedModel, format |-> "diffusers"]>>

\* Registries of at most two entries.
Registries ==
    {<<>>} \cup {<<e>> : e \in RegistryEntries}
           \cup {<<e[1], e[2]>> : e \in {x \in RegistryEntries \X RegistryEntries :
                                              x[1] # x[2]}}

\* Values of train_config.mixed_precision: None, the modes _get_weight_type
\* maps, and a mode the Accelerator accepts that it does not map.
MixedPrecisionModes == {"None", "no", "fp16", "bf16", "fp8"}

\* The columns of the dataset the configuration names: with both configured
\* columns, or with one or both of them missing.
DefaultColumns == {"image", "text"}

ColumnSets == {DefaultColumns, {"image"}, {"text"}, {"image", "text", "label"}, {"label"}}

\* Configurations that vary the training loop, on a valid dataset source.
LoopConfigs ==
    {c \in [dataset_name : {"hub/dataset"}, dataset_dir : {"None"},
            prediction_type : {"None"},
            dataset_image_column : {"image"}, dataset_caption_column : {"text"},
            max_train_steps : 1..MaxTrainSteps,
            gradient_accumulation_steps : 1..MaxAccum,
            save_every_n_steps : Cadences,
            save_every_n_epochs : Cadences,
            validation_prompts : {0, 1},
            validate_every_n_epochs : {1, 2},
            max_checkpoints : {NoneInt, SomeInt(1)},
            model : {ModelKey}, mixed_precision : {"None"},
            train_text_encoder : {FALSE}, scale_lr : {FALSE}, learning_rate : {3},
            train_batch_size : {1}, max_grad_norm : {NoneInt}] :
        \* neither setting is read when the feature it tunes is off
        /\ c.validation_prompts = 0 => c.validate_every_n_epochs = 1
        /\ (IsNone(c.save_every_n_steps) /\ IsNone(c.save_every_n_epochs)) =>
               IsNone(c.max_checkpoints)}

\* Configurations that vary the dataset source and the prediction type.
StartupConfigs ==
    [dataset_name : {"None", "hub/dataset"}, dataset_dir : {"None", "/data/train"},
     prediction_type : PredictionTypes,
     dataset_image_column : {"image"}, dataset_caption_column : {"text"},
     max_train_steps : {1},
     gradient_accumulation_steps : {1},
     save_every_n_steps : {NoneInt},
     save_every_n_epochs : {NoneInt},
     validation_prompts : {0},
     validate_every_n_epochs : {1},
     max_checkpoints : {NoneInt},
     model : {ModelKey}, mixed_precision : {"None"},
     train_text_encoder : {FALSE}, scale_lr : {FALSE}, learning_rate : {3},
     train_batch_size : {1}, max_grad_norm : {NoneInt}]

\* Configurations that vary the model's name and the precision mode.
ModelConfigs ==
    [dataset_name : {"hub/dataset"}, dataset_dir : {"None"},
     prediction_type : {"None"},
     dataset_image_column : {"image"}, dataset_caption_column : {"text"},
     max_train_steps : {1},
     gradient_accumulation_steps : {1},
     save_every_n_steps : {NoneInt},
     save_every_n_epochs : {NoneInt},
     validation_prompts : {0},
     validate_every_n_epochs : {1},
     max_checkpoints : {NoneInt},
     model : ModelNames, mixed_precision : MixedPrecisionModes,
     train_text_encoder : {FALSE}, scale_lr : {FALSE}, learning_rate : {3},
     train_batch_size : {1}, max_grad_norm : {NoneInt}]

\* Configurations that vary what is trained and how the optimizer is driven.
TuningConfigs ==
    {c \in [dataset_name : {"hub/dataset"}, dataset_dir : {"None"},
            prediction_type : {"None"},
            dataset_image_column : {"image"}, dataset_caption_column : {"text"},
            max_train_steps : 1..MaxTrainSteps,
            gradient_accumulation_steps : 1..MaxAccum,
            save_every_n_steps : {NoneInt},
            save_every_n_epochs : {NoneInt},
            validation_prompts : {0, 1},
            validate_every_n_epochs : {1},
            max_checkpoints : {NoneInt},
            model : {ModelKey}, mixed_precision : {"None"},
            train_text_encoder : BOOLEAN, scale_lr : BOOLEAN, learning_rate : {3},
            train_batch_size : {1, 2}, max_grad_norm : {NoneInt, SomeInt(1)}] :
        (~c.scale_lr) => c.train_batch_size = 1}

TrainConfigs ==
    LoopConfigs \cup StartupConfigs \cup ModelConfigs \cup TuningConfigs

\* The prediction type the loaded noise scheduler is configured with.
ModelPredictionType == "epsilon"

Active == 0..(num_processes - 1)

CeilDiv(a, b) == (a + b - 1) \div b

\* num_steps_per_epoch = math.ceil(len(data_loader) / gradient_accumulation_steps)
NumStepsPerEpoch == CeilDiv(loader_len, train_config.gradient_accumulation_steps)

\* num_train_epochs = math.ceil(max_train_steps / num_steps_per_epoch)
NumTrainEpochs == CeilDiv(train_config.max_train_steps, NumStepsPerEpoch)

(***************************************************************************)
(* The order of the statements of run_lora_training before the loop.       *)
(***************************************************************************)
\* The startup with the dataset initialised before the models are loaded.
StartupOrderDatasetFirst ==
    <<"makedirs", "init_accelerator", "check_accumulation", "write_config", "init_dataset",
      "main_process_first", "load_models", "add_lora", "init_optimizer", "prepare",
      "batch">>

StartupOrder ==
    <<"makedirs", "init_accelerator", "check_accumulation", "write_config",
      "load_models", "add_lora",
      "init_optimizer", "init_dataset", "main_process_first", "prepare", "batch">>

NextStage(stage) ==
    StartupOrder[(CHOOSE i \in 1..Len(StartupOrder) : StartupOrder[i] = stage) + 1]

Init ==
    /\ train_config \in TrainConfigs
    /\ num_processes \in 1..MaxProcs
    /\ loader_len \in 1..MaxLoaderLen
    /\ pc = [p \in Procs |-> IF p < num_processes THEN StartupOrder[1] ELSE "off"]
    /\ error = [p \in Procs |-> NoError]
    /\ out_dir = [p \in Procs |-> NoDir]
    /\ fs = [d \in Procs |-> {}]
    /\ made = {}
    /\ wrote = {}
    /\ loaded = [p \in Procs |-> {}]
    /\ dataset_source = [p \in Procs |-> "none"]
    /\ sched_prediction_type = [p \in Procs |-> "none"]
    /\ epoch = [p \in Procs |-> 0]
    /\ step = [p \in Procs |-> 0]
    /\ global_step = [p \in Procs |-> 0]
    /\ accum_step = [p \in Procs |-> 0]
    /\ sync_gradients = [p \in Procs |-> FALSE]
    /\ batches = [p \in Procs |-> 0]
    /\ losses = [p \in Procs |-> 0]
    /\ backwards = [p \in Procs |-> 0]
    /\ optimizer_steps = [p \in Procs |-> 0]
    /\ barrier_point = [p \in Procs |-> NoPoint]
    /\ known_models \in (IF train_config \in ModelConfigs THEN Registries
                         ELSE {DefaultRegistry})
    /\ column_names \in (IF train_config \in StartupConfigs THEN ColumnSets
                         ELSE {DefaultColumns})
    /\ model_meta = [p \in Procs |-> NoModel]
    /\ weight_dtype = [p \in Procs |-> "none"]
    /\ params = [p \in Procs |-> NoParams]
    /\ learning_rate = [p \in Procs |-> train_config.learning_rate]
    /\ config_writes = [p \in Procs |-> 0]
    /\ grads = [p \in Procs |-> 0]
    /\ ops = [p \in Procs |-> <<>>]
    /\ scheduler_steps = [p \in Procs |-> 0]
    /\ loss = [p \in Procs |-> 0]
    /\ avg_loss = [p \in Procs |-> 0]
    /\ train_loss = [p \in Procs |-> 0]
    /\ loss_hist = [p \in Procs |-> <<>>]
    /\ step_marks = [p \in Procs |-> <<>>]
    /\ logged = [p \in Procs |-> <<>>]
    /\ CkptIdle
    /\ LoraIdle
    /\ CaptionsIdle
    /\ SeedIdle

Raise(p, type, about, value) ==
    /\ pc' = [pc EXCEPT ![p] = "error"]
    /\ error' = [error EXCEPT ![p] = [type |-> type, about |-> about, value |-> value]]

Goto(p, label) ==
    /\ pc' = [pc EXCEPT ![p] = label]
    /\ UNCHANGED error

countvars == <<epoch, step, global_step, accum_step, sync_gradients, batches, losses,
               backwards, optimizer_steps, barrier_point>>
loopvars == <<countvars, gradvars, lossvars>>
diskvars == <<out_dir, fs, made, wrote>>
inputvars == <<train_config, num_processes, loader_len, known_models, column_names>>

\* Lines 629-631: out_dir = base_output_dir/{time.time()}; os.makedirs(out_dir).
\* A timestamp no other process drew names a fresh directory, called after the
\* process that drew it; drawing the timestamp of an existing directory makes
\* os.makedirs raise FileExistsError.
MakeOutDir(p, d) ==
    /\ pc[p] = "makedirs"
    /\ d = p \/ d \in made
    /\ out_dir' = [out_dir EXCEPT ![p] = d]
    /\ IF d \in made
       THEN /\ Raise(p, "FileExistsError", "out_dir", "")
            /\ UNCHANGED <<fs, made, wrote>>
       ELSE /\ made' = made \cup {d}
            /\ wrote' = wrote \cup {p}
            /\ Goto(p, NextStage("makedirs"))
            /\ UNCHANGED fs
    /\ UNCHANGED <<inputvars, startvars, params, loopvars, loaded, dataset_source, sched_prediction_type>>

\* The test without the number of processes.
AccumulationConflictAnyProcesses(text_encoder, accum, processes) ==
    text_encoder /\ accum > 1

\* Lines 644-648: the condition of the accumulation check.
AccumulationConflict(text_encoder, accum, processes) ==
    text_encoder /\ accum > 1 /\ processes > 1

\* Lines 634-654: logging set-up and the accumulation check.
CheckAccumulation(p) ==
    /\ pc[p] = "check_accumulation"
    /\ IF AccumulationConflict(train_config.train_text_encoder,
                               train_config.gradient_accumulation_steps, num_processes)
       THEN Raise(p, "ValueError", "gradient_accumulation", "")
       ELSE Goto(p, NextStage("check_accumulation"))
    /\ UNCHANGED <<inputvars, startvars, params, loopvars, diskvars, loaded,
                   dataset_source, sched_prediction_type>>

\* Lines 660-672: logging, and json.dump of the configuration to
\* out_dir/config.json, by every process.
WriteConfig(p) ==
    /\ pc[p] = "write_config"
    /\ fs' = [fs EXCEPT ![out_dir[p]] = @ \cup {ConfigJson}]
    /\ wrote' = wrote \cup {p}
    /\ Goto(p, NextStage("write_config"))
    /\ UNCHANGED <<inputvars, startvars, params, loopvars, out_dir, made, loaded,
                   dataset_source, sched_prediction_type>>

\* The mapping with full precision as the fallback of an unknown mode.
GetWeightTypeDefaultsToFloat32(mixed_precision) ==
    IF mixed_precision = "fp16" THEN "float16"
    ELSE IF mixed_precision = "bf16" THEN "bfloat16"
    ELSE "float32"

\* _get_weight_type, lines 128-144, on accelerator.mixed_precision.
GetWeightType(mixed_precision) ==
    IF mixed_precision = "None" \/ mixed_precision = "no" THEN "float32"
    ELSE IF mixed_precision = "fp16" THEN "float16"
    ELSE IF mixed_precision = "bf16" THEN "bfloat16"
    ELSE "error"

\* x.split("/")[-1]: what follows the last "/".
LastSlashField(x) ==
    LET slashes == {i \in 1..Len(x) : x[i] = "/"}
    IN  IF slashes = {} THEN x
        ELSE SubSeq(x, (CHOOSE i \in slashes : \A j \in slashes : j <= i) + 1, Len(x))

\* s.endswith(suffix)
EndsWith(s, suffix) ==
    /\ Len(s) >= Len(suffix)
    /\ SubSeq(s, Len(s) - Len(suffix) + 1, Len(s)) = suffix

\* Line 282: model_name = train_config.model.split("/")[-1]
ModelName(model) == LastSlashField(model)

\* Lines 286-288: the first known model whose name ends with model_name.
ResolveModel(known, model) ==
    LET matches == {i \in 1..Len(known) : EndsWith(known[i].name, ModelName(model))}
    IN  IF matches = {} THEN NoModel
        ELSE known[CHOOSE i \in matches : \A j \in matches : i <= j]

\* Parameter groups of the modules: the weights of the base model and the
\* LoRA weights added to it.
BaseModules == {"text_encoder", "vae", "unet"}

BaseParams(modules) == {[module |-> m, kind |-> "base"] : m \in modules}

LoraParams(m) == {[module |-> m, kind |-> "lora"]}

\* from_pretrained, lines 322-330: the parameters of a new module require
\* gradients and the module is in eval mode.
FromPretrained(st, modules) ==
    [st EXCEPT !.trainable = @ \cup BaseParams(modules)]

\* module.requires_grad_(False), lines 334-336: every parameter the module
\* has at that time stops requiring gradients.
RequiresGradFalse(st, m) ==
    [st EXCEPT !.trainable = {g \in @ : g.module # m},
               !.frozen = @ \cup {g \in st.trainable : g.module = m}]

\* module.eval(), lines 339-341.
ModuleEval(st, m) == [st EXCEPT !.training = @ \ {m}]

\* module.train() that also turns requires_grad on for the module's weights.
ModuleTrainUnfreezes(st, m) ==
    [st EXCEPT !.training = @ \cup {m},
               !.trainable = @ \cup {g \in st.frozen : g.module = m},
               !.frozen = {g \in @ : g.module # m}]

\* module.train(), lines 881-883: the mode changes, requires_grad does not.
ModuleTrain(st, m) == [st EXCEPT !.training = @ \cup {m}]

\* Lines 316-341 of _load_models on all three modules.
LoadedParams(st) ==
    LET created == FromPretrained(st, BaseModules)
        f1 == RequiresGradFalse(created, "text_encoder")
        f2 == RequiresGradFalse(f1, "vae")
        f3 == RequiresGradFalse(f2, "unet")
    IN  ModuleEval(ModuleEval(ModuleEval(f3, "text_encoder"), "vae"), "unet")

\* Lines 674-678: _get_weight_type, then _load_models: the registry lookup,
\* the two assertions, the sub-models and their freezing.
LoadModels(p) ==
    /\ pc[p] = "load_models"
    /\ LET dtype == GetWeightType(train_config.mixed_precision)
           meta == ResolveModel(known_models, train_config.model)
       IN  IF dtype = "error"
           THEN /\ Raise(p, "NotImplementedError", "mixed_precision",
                         train_config.mixed_precision)
                /\ UNCHANGED <<loaded, sched_prediction_type, model_meta, weight_dtype,
                               params>>
           ELSE /\ weight_dtype' = [weight_dtype EXCEPT ![p] = dtype]
                /\ IF meta = NoModel
                   THEN /\ Raise(p, "AssertionError", "model", "Unknown model")
                        /\ UNCHANGED <<loaded, sched_prediction_type, model_meta, params>>
                   ELSE /\ model_meta' = [model_meta EXCEPT ![p] = meta]
                        /\ IF meta.format # "diffusers"
                           THEN /\ Raise(p, "AssertionError", "model_format", meta.format)
                                /\ UNCHANGED <<loaded, sched_prediction_type, params>>
                           ELSE /\ loaded' = [loaded EXCEPT ![p] = @ \cup {"models"}]
                                /\ sched_prediction_type' =
                                       [sched_prediction_type EXCEPT
                                            ![p] = ModelPredictionType]
                                /\ params' = [params EXCEPT ![p] = LoadedParams(@)]
                                /\ Goto(p, NextStage("load_models"))
    /\ UNCHANGED <<inputvars, learning_rate, config_writes, loopvars, diskvars,
                   dataset_source>>

\* New LoRA modules, lines 218-226 and 691-693: their parameters require
\* gradients; the parameters the base module already has are not touched.
InjectLora(st, m) == [st EXCEPT !.trainable = @ \cup LoraParams(m)]

\* Lines 680-693: add_lora_to_unet_attention_layers, _modify_text_encoder.
AddLora(p) ==
    /\ pc[p] = "add_lora"
    /\ loaded' = [loaded EXCEPT ![p] = @ \cup {"lora"}]
    /\ params' = [params EXCEPT ![p] =
                     IF train_config.train_text_encoder
                     THEN InjectLora(InjectLora(@, "unet"), "text_encoder")
                     ELSE InjectLora(@, "unet")]
    /\ Goto(p, NextStage("add_lora"))
    /\ UNCHANGED <<inputvars, startvars, loopvars, diskvars, dataset_source, sched_prediction_type>>

\* The scaling applied whatever scale_lr says.
ScaledLearningRateAlways(lr, scale_lr, accum, batch_size, processes) ==
    lr * accum * batch_size * processes

\* Lines 780-786: train_config.learning_rate after the scale_lr statement.
ScaledLearningRate(lr, scale_lr, accum, batch_size, processes) ==
    IF scale_lr THEN lr * accum * batch_size * processes ELSE lr

\* Lines 755-793: hooks, learning rate scaling, _initialize_optimizer.
InitOptimizer(p) ==
    /\ pc[p] = "init_optimizer"
    /\ loaded' = [loaded EXCEPT ![p] = @ \cup {"optimizer"}]
    /\ learning_rate' =
           [learning_rate EXCEPT ![p] =
                ScaledLearningRate(@, train_config.scale_lr,
                                   train_config.gradient_accumulation_steps,
                                   train_config.train_batch_size, num_processes)]
    /\ config_writes' = [config_writes EXCEPT ![p] =
                             IF train_config.scale_lr THEN @ + 1 ELSE @]
    /\ Goto(p, NextStage("init_optimizer"))
    /\ UNCHANGED <<inputvars, model_meta, weight_dtype, params, loopvars, diskvars, dataset_source, sched_prediction_type>>

\* The branch with a silent default to the local folder.
DatasetSourceDefaultsToFolder(dataset_name, dataset_dir) ==
    IF dataset_name # "None" THEN "hub" ELSE "imagefolder"

\* The branch of _initialize_dataset, lines 372-392.
DatasetSource(dataset_name, dataset_dir) ==
    IF dataset_name # "None" THEN "hub"
    ELSE IF dataset_dir # "None" THEN "imagefolder"
    ELSE "error"

\* Lines 396-408: the configured column that is missing from the dataset's
\* columns, the image column first, "none" when both are there.
MissingColumn(columns, image_column, caption_column) ==
    IF image_column \notin columns THEN "dataset_image_column"
    ELSE IF caption_column \notin columns THEN "dataset_caption_column"
    ELSE "none"

\* Line 795: _initialize_dataset up to the data loader's construction.
InitDataset(p) ==
    /\ pc[p] = "init_dataset"
    /\ LET source == DatasetSource(train_config.dataset_name, train_config.dataset_dir)
           missing == MissingColumn(column_names, train_config.dataset_image_column,
                                    train_config.dataset_caption_column)
       IN  IF source = "error"
           THEN /\ Raise(p, "ValueError", "dataset", "")
                /\ UNCHANGED <<dataset_source, loaded>>
           ELSE IF missing # "none"
           THEN /\ Raise(p, "ValueError", missing, train_config[missing])
                /\ dataset_source' = [dataset_source EXCEPT ![p] = source]
                /\ UNCHANGED loaded
           ELSE /\ dataset_source' = [dataset_source EXCEPT ![p] = source]
                /\ loaded' = [loaded EXCEPT ![p] = @ \cup {"dataset"}]
                /\ Goto(p, NextStage("init_dataset"))
    /\ UNCHANGED <<inputvars, startvars, params, loopvars, diskvars, sched_prediction_type>>

\* Lines 881-883: unet.train(), and text_encoder.train() when it is trained.
EpochStartParams(st) ==
    IF train_config.train_text_encoder
    THEN ModuleTrain(ModuleTrain(st, "unet"), "text_encoder")
    ELSE ModuleTrain(st, "unet")

\* Lines 800-885: scheduler, accelerator.prepare, epoch count, global_step = 0,
\* and the entry into the first epoch.
Prepare(p) ==
    /\ pc[p] = "prepare"
    /\ params' = [params EXCEPT ![p] =
                     IF NumTrainEpochs > 0 THEN EpochStartParams(@) ELSE @]
    /\ global_step' = [global_step EXCEPT ![p] = 0]
    /\ epoch' = [epoch EXCEPT ![p] = 0]
    /\ step' = [step EXCEPT ![p] = 0]
    /\ train_loss' = [train_loss EXCEPT ![p] = IF NumTrainEpochs > 0 THEN 0 ELSE @]
    /\ Goto(p, IF NumTrainEpochs > 0 THEN NextStage("prepare") ELSE "done")
    /\ UNCHANGED <<inputvars, startvars, diskvars, loaded, dataset_source, sched_prediction_type,
                   accum_step, sync_gradients, batches, losses, backwards,
                   optimizer_steps, barrier_point, gradvars, loss, avg_loss,
                   loss_hist, step_marks, logged>>

(***************************************************************************)
(* The training loop, lines 880-1048.                                      *)
(***************************************************************************)

\* accelerator.accumulate -> Accelerator._do_sync: gradients are synchronised
\* on every gradient_accumulation_steps-th micro-batch and on the last batch
\* of the data loader, where the accumulation counter restarts.
EndOfDataloader(p) == step[p] = loader_len - 1

DoSyncStep(p) == IF EndOfDataloader(p) THEN 0 ELSE accum_step[p] + 1

\* Synchronisation on every gradient_accumulation_steps-th micro-batch only.
DoSyncGradientsEveryNth(p) ==
    (accum_step[p] + 1) % train_config.gradient_accumulation_steps = 0

DoSyncGradients(p) ==
    IF EndOfDataloader(p) THEN TRUE
    ELSE (accum_step[p] + 1) % train_config.gradient_accumulation_steps = 0

\* The target with the noise as the fallback of an unknown prediction type.
TargetOfDefaultsToNoise(prediction_type) ==
    IF prediction_type = "v_prediction" THEN "velocity" ELSE "noise"

\* Lines 924-941: the regression target for a prediction type.
TargetOf(prediction_type) ==
    IF prediction_type = "epsilon" THEN "noise"
    ELSE IF prediction_type = "v_prediction" THEN "velocity"
    ELSE "error"

\* Lines 925-930: register_to_config when train_config.prediction_type is set.
RegisteredPredictionType(p) ==
    IF train_config.prediction_type # "None" THEN train_config.prediction_type
    ELSE sched_prediction_type[p]

\* The break test with a strict comparison.
BreakNowStrict(gs) == gs > train_config.max_train_steps

\* Line 1010: if global_step >= train_config.max_train_steps: break
BreakNow(gs) == gs >= train_config.max_train_steps

\* Where the inner loop goes after a micro-batch: lines 1010-1011 and line 886.
AfterBatchPc(p, gs, next_step) ==
    IF BreakNow(gs) THEN "epoch_end"
    ELSE IF next_step >= loader_len THEN "epoch_end"
    ELSE "batch"

\* A checkpoint at every global step once save_every_n_steps is set.
StepSaveDueEveryStep(gs) == ~IsNone(train_config.save_every_n_steps)

\* Lines 989-992.
StepSaveDue(gs) ==
    /\ ~IsNone(train_config.save_every_n_steps)
    /\ gs % IntOf(train_config.save_every_n_steps) = 0

\* Lines 1014-1017.
EpochSaveDue(e) ==
    /\ ~IsNone(train_config.save_every_n_epochs)
    /\ (e + 1) % IntOf(train_config.save_every_n_epochs) = 0

\* Lines 1030-1033.
ValidationDue(e) ==
    /\ train_config.validation_prompts > 0
    /\ (e + 1) % train_config.validate_every_n_epochs = 0

\* The loss of the k-th micro-batch of process p, different from one
\* micro-batch to the next and from one process to the next.
LossOf(p, k) == 36 * (1 + ((p + k) % 2))

\* Lines 886-950: fetch a batch, enter accelerator.accumulate, sample noise and
\* timesteps, pick the target, run the forward pass and compute the loss.
MicroBatch(p) ==
    /\ pc[p] = "batch"
    /\ batches' = [batches EXCEPT ![p] = @ + 1]
    /\ accum_step' = [accum_step EXCEPT ![p] = DoSyncStep(p)]
    /\ sync_gradients' = [sync_gradients EXCEPT ![p] = DoSyncGradients(p)]
    /\ sched_prediction_type' =
           [sched_prediction_type EXCEPT ![p] = RegisteredPredictionType(p)]
    /\ IF TargetOf(RegisteredPredictionType(p)) = "error"
       THEN /\ Raise(p, "ValueError", "prediction_type", RegisteredPredictionType(p))
            /\ UNCHANGED <<losses, loss>>
       ELSE /\ losses' = [losses EXCEPT ![p] = @ + 1]
            /\ loss' = [loss EXCEPT ![p] = LossOf(p, batches[p] + 1)]
            /\ Goto(p, "gather")
    /\ UNCHANGED <<inputvars, startvars, params, diskvars, loaded, dataset_source, epoch, step,
                   global_step, backwards, optimizer_steps, barrier_point,
                   gradvars, avg_loss, train_loss, loss_hist, step_marks, logged>>

\* Lines 962-979 with the accelerator's wrappers: the backward pass always
\* runs; clipping needs synchronised gradients and a max_grad_norm; the
\* prepared optimizer and scheduler step, and zero_grad clears, only when the
\* gradients were synchronised.
OpsOfMicroBatch(sync, max_grad_norm) ==
    <<"backward">>
        \o (IF sync /\ ~IsNone(max_grad_norm) THEN <<"clip_grad_norm_">> ELSE <<>>)
        \o (IF sync THEN <<"optimizer.step", "lr_scheduler.step", "zero_grad">>
            ELSE <<>>)

\* The running loss kept over the log.
TrainLossAfterLogKept(running) == running

\* Line 987: train_loss = 0.0
TrainLossAfterLog(running) == 0

\* Lines 957-959: train_loss += avg_loss.item() / gradient_accumulation_steps
AddToTrainLoss(running, avg) ==
    running + (avg \div train_config.gradient_accumulation_steps)

\* Lines 962-1011, once the all-reduce inside accelerator.backward has
\* returned: backward, clipping, optimizer and scheduler step, and, when
\* gradients were synchronised, the global step, the log of the running
\* loss and its reset, and the step-cadence checkpoint condition; then the
\* break test.
BackwardStep(p) ==
    /\ pc[p] = "backward"
    /\ backwards' = [backwards EXCEPT ![p] = @ + 1]
    /\ step' = [step EXCEPT ![p] = @ + 1]
    /\ ops' = [ops EXCEPT ![p] =
                  OpsOfMicroBatch(sync_gradients[p], train_config.max_grad_norm)]
    /\ grads' = [grads EXCEPT ![p] = IF sync_gradients[p] THEN 0 ELSE @ + 1]
    /\ scheduler_steps' =
           [scheduler_steps EXCEPT ![p] =
                IF sync_gradients[p] THEN @ + num_processes ELSE @]
    /\ IF sync_gradients[p]
       THEN /\ logged' = [logged EXCEPT ![p] = Append(@, train_loss[p])]
            /\ train_loss' = [train_loss EXCEPT ![p] = TrainLossAfterLog(@)]
            /\ step_marks' = [step_marks EXCEPT ![p] = Append(@, backwards[p] + 1)]
       ELSE UNCHANGED <<train_loss, logged, step_marks>>
    /\ LET gs == IF sync_gradients[p] THEN global_step[p] + 1 ELSE global_step[p]
       IN  /\ global_step' = [global_step EXCEPT ![p] = gs]
           /\ optimizer_steps' =
                  [optimizer_steps EXCEPT ![p] = IF sync_gradients[p] THEN @ + 1 ELSE @]
           /\ IF sync_gradients[p] /\ StepSaveDue(gs)
              THEN /\ Goto(p, "step_barrier")
                   /\ barrier_point' = [barrier_point EXCEPT ![p] = <<"step", gs>>]
              ELSE /\ Goto(p, AfterBatchPc(p, gs, step[p] + 1))
                   /\ UNCHANGED barrier_point
    /\ UNCHANGED <<inputvars, startvars, params, diskvars, loaded, dataset_source, sched_prediction_type,
                   epoch, accum_step, sync_gradients, batches, losses, loss,
                   avg_loss, loss_hist>>

\* Lines 994-1002: the step-cadence checkpoint.
SaveStepCheckpoint(p) ==
    /\ pc[p] = "step_save"
    /\ fs' = [fs EXCEPT ![out_dir[p]] =
                 SaveCheckpoint(@, "step", global_step[p], train_config.max_checkpoints)]
    /\ wrote' = wrote \cup {p}
    /\ Goto(p, AfterBatchPc(p, global_step[p], step[p]))
    /\ UNCHANGED <<inputvars, startvars, params, loopvars, out_dir, made, loaded, dataset_source,
                   sched_prediction_type>>

\* Lines 1029-1048 and 880-885: after the epoch checkpoint, the validation
\* condition, then the next epoch or the end of the run.
AfterEpochSave(p, pcs, may_validate) ==
    IF may_validate /\ ValidationDue(epoch[p]) /\ p = MainProcess
    THEN /\ pc' = [pcs EXCEPT ![p] = "validation"]
         /\ UNCHANGED <<epoch, step, params, train_loss>>
    ELSE IF epoch[p] + 1 < NumTrainEpochs
    THEN /\ pc' = [pcs EXCEPT ![p] = "batch"]
         /\ epoch' = [epoch EXCEPT ![p] = @ + 1]
         /\ step' = [step EXCEPT ![p] = 0]
         /\ params' = [params EXCEPT ![p] = EpochStartParams(@)]
         /\ train_loss' = [train_loss EXCEPT ![p] = 0]
    ELSE /\ pc' = [pcs EXCEPT ![p] = "done"]
         /\ UNCHANGED <<epoch, step, params, train_loss>>

\* Lines 1013-1019: the end of an epoch up to the epoch-cadence barrier.
EpochEnd(p) ==
    /\ pc[p] = "epoch_end"
    /\ IF EpochSaveDue(epoch[p]) /\ p = MainProcess
       THEN /\ pc' = [pc EXCEPT ![p] = "epoch_barrier"]
            /\ barrier_point' = [barrier_point EXCEPT ![p] = <<"epoch", epoch[p] + 1>>]
            /\ UNCHANGED <<epoch, step, params, train_loss>>
       ELSE /\ AfterEpochSave(p, pc, TRUE)
            /\ UNCHANGED barrier_point
    /\ UNCHANGED <<inputvars, startvars, diskvars, error, loaded, dataset_source,
                   sched_prediction_type, global_step, accum_step, sync_gradients,
                   batches, losses, backwards, optimizer_steps, gradvars,
                   loss, avg_loss, loss_hist, step_marks, logged>>

\* Lines 1020-1033: the epoch-cadence checkpoint.
SaveEpochCheckpoint(p) ==
    /\ pc[p] = "epoch_save"
    /\ fs' = [fs EXCEPT ![out_dir[p]] =
                 SaveCheckpoint(@, "epoch", epoch[p] + 1, train_config.max_checkpoints)]
    /\ wrote' = wrote \cup {p}
    /\ AfterEpochSave(p, pc, TRUE)
    /\ UNCHANGED <<inputvars, startvars, error, out_dir, made, loaded, dataset_source,
                   sched_prediction_type, global_step, accum_step, sync_gradients,
                   batches, losses, backwards, optimizer_steps, barrier_point,
                   gradvars, loss, avg_loss, loss_hist, step_marks, logged>>

\* Lines 1034-1048: _generate_validation_images on the main process.
GenerateValidationImages(p) ==
    /\ pc[p] = "validation"
    /\ fs' = [fs EXCEPT ![out_dir[p]] = @ \cup {ValidationDir}]
    /\ wrote' = wrote \cup {p}
    /\ AfterEpochSave(p, pc, FALSE)
    /\ UNCHANGED <<inputvars, startvars, error, out_dir, made, loaded, dataset_source,
                   sched_prediction_type, global_step, accum_step, sync_gradients,
                   batches, losses, backwards, optimizer_steps, barrier_point,
                   gradvars, loss, avg_loss, loss_hist, step_marks, logged>>

(***************************************************************************)
(* Collective operations: the process group's rendezvous in Accelerator(), *)
(* accelerator.main_process_first, accelerator.gather (line 954), the      *)
(* all-reduce of the gradients inside accelerator.backward (line 962) on a *)
(* micro-batch that synchronises them, and accelerator.wait_for_everyone.  *)
(* A collective returns once every process of the group has entered its    *)
(* own next collective.  When the processes are in different collectives   *)
(* the behaviour of the communication backend is undefined: the calls may  *)
(* return or block forever.                                                *)
(***************************************************************************)
CollectiveSites ==
    {"init_accelerator", "main_process_first", "gather", "all_reduce",
     "step_barrier", "epoch_barrier"}

AllInCollective == \A p \in Active : pc[p] \in CollectiveSites

SameCollective == \A p, q \in Active : pc[p] = pc[q]

AfterCollective(p) ==
    CASE pc[p] = "init_accelerator" -> NextStage("init_accelerator")
      [] pc[p] = "main_process_first" -> NextStage("main_process_first")
      [] pc[p] = "gather" -> IF sync_gradients[p] THEN "all_reduce" ELSE "backward"
      [] pc[p] = "all_reduce" -> "backward"
      [] pc[p] = "step_barrier" ->
             IF p = MainProcess THEN "step_save"
             ELSE AfterBatchPc(p, global_step[p], step[p])
      [] pc[p] = "epoch_barrier" -> "epoch_save"
      [] OTHER -> pc[p]

collectiveframe == <<inputvars, startvars, params, diskvars, countvars,
                     gradvars, loss, step_marks, logged, error,
                     loaded, dataset_source, sched_prediction_type>>

RECURSIVE SumOfLosses(_)
SumOfLosses(S) ==
    IF S = {} THEN 0
    ELSE LET q == CHOOSE x \in S : TRUE
         IN  loss[q] + SumOfLosses(S \ {q})

\* Lines 954-956: the mean of the losses gathered from all processes.
GatheredMean == SumOfLosses(Active) \div num_processes

\* Lines 954-959 on the processes whose gather returns, avg[p] being what
\* it returns to p: avg_loss is assigned and added to the running loss
\* before accelerator.backward is entered.
LossAfterGather(avg) ==
    LET returns(p) == p \in Active /\ pc[p] = "gather"
    IN  /\ avg_loss' = [p \in Procs |-> IF returns(p) THEN avg[p] ELSE avg_loss[p]]
        /\ train_loss' = [p \in Procs |->
                              IF returns(p) THEN AddToTrainLoss(train_loss[p], avg[p])
                              ELSE train_loss[p]]
        /\ loss_hist' = [p \in Procs |->
                             IF returns(p) THEN Append(loss_hist[p], avg[p])
                             ELSE loss_hist[p]]

CollectiveComplete ==
    /\ AllInCollective
    /\ SameCollective
    /\ pc' = [p \in Procs |-> IF p \in Active THEN AfterCollective(p) ELSE pc[p]]
    /\ LossAfterGather([p \in Procs |-> GatheredMean])
    /\ UNCHANGED collectiveframe

\* A gather that was paired with another collective returns the process's
\* own loss or a mean over what the other processes last held.
CollectiveMismatchReturns ==
    /\ AllInCollective
    /\ ~SameCollective
    /\ pc' = [p \in Procs |-> IF p \in Active THEN AfterCollective(p) ELSE pc[p]]
    /\ \E own \in BOOLEAN :
           LossAfterGather([p \in Procs |-> IF own THEN loss[p] ELSE GatheredMean])
    /\ UNCHANGED collectiveframe

CollectiveMismatchHangs ==
    /\ AllInCollective
    /\ ~SameCollective
    /\ pc' = [p \in Procs |-> IF p \in Active THEN "hung" ELSE pc[p]]
    /\ UNCHANGED <<collectiveframe, avg_loss, train_loss, loss_hist>>

Next ==
    \/ \E p \in Active, d \in Procs : MakeOutDir(p, d) /\ UNCHANGED <<ckvars, unitvars>>
    \/ \E p \in Active : CheckAccumulation(p) /\ UNCHANGED <<ckvars, unitvars>>
    \/ \E p \in Active : WriteConfig(p) /\ UNCHANGED <<ckvars, unitvars>>
    \/ \E p \in Active : LoadModels(p) /\ UNCHANGED <<ckvars, unitvars>>
    \/ \E p \in Active : AddLora(p) /\ UNCHANGED <<ckvars, unitvars>>
    \/ \E p \in Active : InitOptimizer(p) /\ UNCHANGED <<ckvars, unitvars>>
    \/ \E p \in Active : InitDataset(p) /\ UNCHANGED <<ckvars, unitvars>>
    \/ \E p \in Active : Prepare(p) /\ UNCHANGED <<ckvars, unitvars>>
    \/ \E p \in Active : MicroBatch(p) /\ UNCHANGED <<ckvars, unitvars>>
    \/ \E p \in Active : BackwardStep(p) /\ UNCHANGED <<ckvars, unitvars>>
    \/ \E p \in Active : SaveStepCheckpoint(p) /\ UNCHANGED <<ckvars, unitvars>>
    \/ \E p \in Active : EpochEnd(p) /\ UNCHANGED <<ckvars, unitvars>>
    \/ \E p \in Active : SaveEpochCheckpoint(p) /\ UNCHANGED <<ckvars, unitvars>>
    \/ \E p \in Active : GenerateValidationImages(p) /\ UNCHANGED <<ckvars, unitvars>>
    \/ CollectiveComplete /\ UNCHANGED <<ckvars, unitvars>>
    \/ CollectiveMismatchReturns /\ UNCHANGED <<ckvars, unitvars>>
    \/ CollectiveMismatchHangs /\ UNCHANGED <<ckvars, unitvars>>

Spec == Init /\ [][Next]_vars


(***************************************************************************)
(* add_lora_to_unet_attention_layers on a denoising network given by its   *)
(* block_out_channels and the names of its attention processors.           *)
(***************************************************************************)
MaxBlocks == 11
MaxNames == 2

\* unet.config.cross_attention_dim of the loaded network.
CrossAttentionDim == 768

\* A channel list of n blocks with a different width for every block.
Channels(n) == [k \in 1..n |-> 64 * k]

ChannelLists == {Channels(n) : n \in {1, 4, MaxBlocks}}

AttnSuffixes == {"attn1.processor", "attn2.processor"}

\* The name of an attention processor: block prefix, block index in decimal
\* digits (none for the mid block), the path inside the block, the processor.
AttnName(kind, i, attn) ==
    IF kind = "mid_block"
    THEN <<"mid_block", ".", "attentions.0.transformer_blocks.0.", attn>>
    ELSE <<kind, ".">> \o Str(i) \o <<".", "attentions.0.transformer_blocks.0.", attn>>

\* A processor that is in none of the three block groups.
UnexpectedName == <<"conv_in", ".", "attn1.processor">>

\* The processor names of a network with the given channel list.
NamesFor(channels) ==
    {AttnName(kind, i, attn) : kind \in {"down_blocks", "up_blocks"},
                               i \in 0..(Len(channels) - 1), attn \in AttnSuffixes}
        \cup {AttnName("mid_block", 0, attn) : attn \in AttnSuffixes}

\* Lines 182-186.
CrossAttentionDimOf(name) ==
    IF EndsWith(name, <<"attn1.processor">>) THEN NoneInt
    ELSE SomeInt(CrossAttentionDim)

\* int(name[len("up_blocks.")]): the one character that follows the prefix.
BlockId(name, prefix) == ParseInt(<<name[Len(prefix) + 1]>>)

\* list(reversed(s))
Reversed(s) == [k \in 1..Len(s) |-> s[Len(s) + 1 - k]]

\* Lines 187-200 with the last block's size for a name of no block group.
HiddenSizeOfDefaultsToLast(name, channels) ==
    IF StartsWith(name, <<"up_blocks">>)
    THEN SomeInt(Reversed(channels)[BlockId(name, <<"up_blocks", ".">>) + 1])
    ELSE IF StartsWith(name, <<"down_blocks">>)
    THEN SomeInt(channels[BlockId(name, <<"down_blocks", ".">>) + 1])
    ELSE SomeInt(channels[Len(channels)])

\* Lines 187-200: the hidden size, NoneInt where the code raises.
HiddenSizeOf(name, channels) ==
    IF StartsWith(name, <<"mid_block">>)
    THEN SomeInt(channels[Len(channels)])
    ELSE IF StartsWith(name, <<"up_blocks">>)
    THEN SomeInt(Reversed(channels)[BlockId(name, <<"up_blocks", ".">>) + 1])
    ELSE IF StartsWith(name, <<"down_blocks">>)
    THEN SomeInt(channels[BlockId(name, <<"down_blocks", ".">>) + 1])
    ELSE NoneInt

\* Sequences of one to MaxNames different names.
RECURSIVE NameLists(_, _)
NameLists(names, n) ==
    IF n = 0 THEN {<<>>}
    ELSE LET shorter == NameLists(names, n - 1)
         IN  shorter \cup {Append(l, x) : l \in shorter, x \in names}

DistinctNameLists(names, n) ==
    {l \in NameLists(names, n) :
         /\ Len(l) >= 1
         /\ \A a, b \in 1..Len(l) : a # b => l[a] # l[b]}

\* unet.attn_processors before the call: the processors the network was
\* built with, one per name.
OriginalProcessors(names, classes) ==
    [k \in 1..Len(names) |-> [name |-> names[k], class |-> classes[k]]]

\* unet.set_attn_processor(procs): every processor is replaced by the
\* adapter created for its name.
SetAttnProcessor(procs) ==
    [k \in 1..Len(procs) |->
        [name |-> procs[k].name, class |-> procs[k].class,
         hidden_size |-> procs[k].hidden_size,
         cross_attention_dim |-> procs[k].cross_attention_dim]]

\* The classes of the processors a network is built with: those the code
\* tests for at lines 202-209, and the default ones.
AddedKVClasses ==
    {"AttnAddedKVProcessor", "SlicedAttnAddedKVProcessor", "AttnAddedKVProcessor2_0"}

ProcessorClasses == AddedKVClasses \cup {"AttnProcessor", "AttnProcessor2_0"}

\* Lines 202-216: the class of the adapter that replaces a processor.
LoraAttnProcessorClass(class, sdpa) ==
    IF class \in AddedKVClasses THEN "LoRAAttnAddedKVProcessor"
    ELSE IF sdpa THEN "LoRAAttnProcessor2_0"
    ELSE "LoRAAttnProcessor"

\* The classes of n processors: the same class for all, or a mix of a
\* default and an added-KV class.
ClassLists(n) ==
    {[k \in 1..n |-> c] : c \in ProcessorClasses}
        \cup [1..n -> {"AttnProcessor", "AttnAddedKVProcessor"}]

InitLora ==
    /\ block_out_channels \in ChannelLists
    /\ attn_processor_names \in
           DistinctNameLists(NamesFor(block_out_channels) \cup {UnexpectedName}, MaxNames)
    /\ attn_processor_classes \in
           (IF Len(block_out_channels) = 1 THEN ClassLists(Len(attn_processor_names))
            ELSE {[k \in 1..Len(attn_processor_names) |-> "AttnProcessor"]})
    /\ has_sdpa \in BOOLEAN
    /\ unet_lora_attn_procs = <<>>
    /\ unet_attn_processors =
           OriginalProcessors(attn_processor_names, attn_processor_classes)
    /\ lora_pc = "loop"
    /\ RunIdle
    /\ CkptIdle
    /\ CaptionsIdle
    /\ SeedIdle

\* Lines 181-224: one iteration of the loop over unet.attn_processors.
LoraAdd ==
    /\ lora_pc = "loop"
    /\ Len(unet_lora_attn_procs) < Len(attn_processor_names)
    /\ LET name == attn_processor_names[Len(unet_lora_attn_procs) + 1]
           hidden_size == HiddenSizeOf(name, block_out_channels)
       IN  IF IsNone(hidden_size)
           THEN /\ lora_pc' = "error"
                /\ UNCHANGED unet_lora_attn_procs
           ELSE /\ unet_lora_attn_procs' =
                       Append(unet_lora_attn_procs,
                              [name |-> name,
                               class |-> LoraAttnProcessorClass(
                                   attn_processor_classes[Len(unet_lora_attn_procs) + 1],
                                   has_sdpa),
                               hidden_size |-> IntOf(hidden_size),
                               cross_attention_dim |-> CrossAttentionDimOf(name)])
                /\ UNCHANGED lora_pc
    /\ UNCHANGED <<block_out_channels, attn_processor_names, attn_processor_classes,
                   has_sdpa, unet_attn_processors>>

\* Line 226: unet.set_attn_processor(unet_lora_attn_procs).
LoraSet ==
    /\ lora_pc = "loop"
    /\ Len(unet_lora_attn_procs) = Len(attn_processor_names)
    /\ lora_pc' = "set"
    /\ unet_attn_processors' = SetAttnProcessor(unet_lora_attn_procs)
    /\ UNCHANGED <<block_out_channels, attn_processor_names, attn_processor_classes,
                   has_sdpa, unet_lora_attn_procs>>

NextLora ==
    \/ LoraAdd /\ UNCHANGED <<runvars, ckvars, captionvars, seedvars>>
    \/ LoraSet /\ UNCHANGED <<runvars, ckvars, captionvars, seedvars>>

SpecLora == InitLora /\ [][NextLora]_vars


(***************************************************************************)
(* tokenize_captions of _initialize_dataset, lines 412-434, on the caption *)
(* column of a batch of examples.                                          *)
(***************************************************************************)
MaxBatch == 2

\* A caption value: its python type and the strings it holds.
CaptionValues ==
    {[type |-> "str", items |-> <<"a cat">>],
     [type |-> "list", items |-> <<"a dog", "a puppy">>],
     [type |-> "ndarray", items |-> <<"a bird", "a sparrow">>],
     [type |-> "list", items |-> <<>>],
     [type |-> "tuple", items |-> <<"a fish">>],
     [type |-> "int", items |-> <<>>]}

RECURSIVE Batches(_)
Batches(n) ==
    IF n = 0 THEN {<<>>}
    ELSE LET shorter == Batches(n - 1)
         IN  shorter \cup {Append(b, c) : b \in shorter, c \in CaptionValues}

\* The exception one caption value raises in the loop body, "none" without:
\* ValueError of lines 422-426, IndexError of random.choice and of caption[0]
\* on an empty sequence.
CaptionError(caption) ==
    IF caption.type = "str" THEN "none"
    ELSE IF caption.type \in {"list", "ndarray"}
    THEN (IF Len(caption.items) = 0 THEN "IndexError" ELSE "none")
    ELSE "ValueError"

\* The selection with the last entry of a list outside training.
CaptionChoicesLast(caption, train) ==
    IF caption.type = "str" THEN {caption.items[1]}
    ELSE IF train THEN {caption.items[k] : k \in 1..Len(caption.items)}
    ELSE {caption.items[Len(caption.items)]}

\* Lines 415-421: what captions.append may receive for a caption value.
CaptionChoices(caption, train) ==
    IF caption.type = "str" THEN {caption.items[1]}
    ELSE IF train THEN {caption.items[k] : k \in 1..Len(caption.items)}
    ELSE {caption.items[1]}

\* Lines 427-434: the tokenizer returns one row of ids per caption.
TokenizerInputIds(cs) == [k \in 1..Len(cs) |-> <<"ids", cs[k]>>]

InitCaptions ==
    /\ examples \in {b \in Batches(MaxBatch) : Len(b) >= 1}
    /\ is_train \in BOOLEAN
    /\ captions = <<>>
    /\ input_ids = <<>>
    /\ tc_pc = "loop"
    /\ tc_error = "none"
    /\ RunIdle
    /\ CkptIdle
    /\ LoraIdle
    /\ SeedIdle

\* Lines 414-426: one iteration of the loop over the caption column.
CaptionStep ==
    /\ tc_pc = "loop"
    /\ Len(captions) < Len(examples)
    /\ LET caption == examples[Len(captions) + 1]
       IN  IF CaptionError(caption) # "none"
           THEN /\ tc_pc' = "error"
                /\ tc_error' = CaptionError(caption)
                /\ UNCHANGED captions
           ELSE /\ \E c \in CaptionChoices(caption, is_train) :
                       captions' = Append(captions, c)
                /\ UNCHANGED <<tc_pc, tc_error>>
    /\ UNCHANGED <<examples, is_train, input_ids>>

\* Lines 427-434: tokenize the selected captions and return the ids.
TokenizeReturn ==
    /\ tc_pc = "loop"
    /\ Len(captions) = Len(examples)
    /\ input_ids' = TokenizerInputIds(captions)
    /\ tc_pc' = "returned"
    /\ UNCHANGED <<examples, is_train, captions, tc_error>>

NextCaptions ==
    \/ CaptionStep /\ UNCHANGED <<runvars, ckvars, loravars, seedvars>>
    \/ TokenizeReturn /\ UNCHANGED <<runvars, ckvars, loravars, seedvars>>

SpecCaptions == InitCaptions /\ [][NextCaptions]_vars

(***************************************************************************)
(* The random draws of a run.  The global generators of random and torch   *)
(* start a process in a state taken from the operating system, a different *)
(* one from run to run; set_seed(seed) (accelerate) puts each of them, and *)
(* the generator of numpy, from which no statement of the module draws, in *)
(* the state that seed determines.  A draw returns a value that the state  *)
(* of its generator determines and moves that generator to its next state. *)
(***************************************************************************)
MaxSeedBatches == 2
GenStates == 3

\* The generators the statements of a run draw from.
DrawnSources == {"random", "torch"}

\* random.seed(seed), torch.manual_seed(seed): the state a seed stands for.
ManualSeed(seed) == seed % GenStates

\* One draw from a generator in a state: the value, and the state after.
Output(state) == state

Advance(state) == (state + 1) % GenStates

\* The seed statement seeding torch alone.
SetSeedTorchOnly(gens, seed) ==
    IF IsNone(seed) THEN gens
    ELSE [gens EXCEPT !["torch"] = ManualSeed(IntOf(seed))]

\* Lines 657-658: if train_config.seed is not None: set_seed(train_config.seed)
SetSeed(gens, seed) ==
    IF IsNone(seed) THEN gens
    ELSE [src \in DOMAIN gens |-> ManualSeed(IntOf(seed))]

\* The generator a statement draws from: random.choice (line 420) from
\* random; the initialisation of the adapters, the data loader's shuffle,
\* the image transforms, latent_dist.sample, torch.randn_like, torch.randn
\* and torch.randint from torch.
SourceOf(site) == IF site = "random.choice" THEN "random" ELSE "torch"

\* The draws of one micro-batch, in order: fetching the batch runs
\* preprocess_train (lines 457-464: RandomCrop unless center_crop,
\* RandomHorizontalFlip with random_flip, then tokenize_captions with its
\* random.choice when the captions are lists), then lines 890-913.
BatchSites(config) ==
    (IF config.center_crop THEN <<>> ELSE <<"RandomCrop">>)
        \o (IF config.random_flip THEN <<"RandomHorizontalFlip">> ELSE <<>>)
        \o (IF config.caption_lists THEN <<"random.choice">> ELSE <<>>)
        \o <<"latent_dist.sample", "randn_like">>
        \o (IF config.noise_offset # 0 THEN <<"randn">> ELSE <<>>)
        \o <<"randint">>

\* The draws of a sequence of statements from the global generators gens,
\* appended to out.
RECURSIVE DrawAll(_, _, _)
DrawAll(gens, sites, out) ==
    IF sites = <<>> THEN [generators |-> gens, draws |-> out]
    ELSE LET src == SourceOf(Head(sites))
         IN  DrawAll([gens EXCEPT ![src] = Advance(@)], Tail(sites),
                     Append(out, [site |-> Head(sites), value |-> Output(gens[src])]))

\* torch.Generator(device=...): a new generator starts in a fixed state.
NewGenerator == 0

\* Lines 584-586: the generator of the validation images.
ValidationGenerator(seed) ==
    IF IsNone(seed) THEN NewGenerator ELSE ManualSeed(IntOf(seed))

\* The configurations of the two runs.
SeedRunConfigs ==
    [seed : {NoneInt, SomeInt(1), SomeInt(2)},
     noise_offset : {0, 1},
     center_crop : BOOLEAN, random_flip : {FALSE},
     caption_lists : BOOLEAN,
     validation_prompts : {0, 1},
     max_train_steps : 1..MaxSeedBatches,
     gradient_accumulation_steps : {1},
     loader_len : 1..MaxSeedBatches]

InitSeed ==
    /\ seed_config \in SeedRunConfigs
    /\ entropy \in [Runs -> [DrawnSources -> 0..(GenStates - 1)]]
    /\ generators = entropy
    /\ draws = [r \in Runs |-> <<>>]
    /\ seed_batches = [r \in Runs |-> 0]
    /\ seed_pc = [r \in Runs |-> "set_seed"]
    /\ RunIdle
    /\ CkptIdle
    /\ LoraIdle
    /\ CaptionsIdle

\* The second run starts when the first has ended.
CurrentRun == IF seed_pc[1] = "done" THEN 2 ELSE 1

SeedDraw(r, sites) ==
    LET drawn == DrawAll(generators[r], sites, draws[r])
    IN  /\ generators' = [generators EXCEPT ![r] = drawn.generators]
        /\ draws' = [draws EXCEPT ![r] = drawn.draws]

\* Lines 656-658.
RunSetSeed(r) ==
    /\ seed_pc[r] = "set_seed"
    /\ generators' = [generators EXCEPT ![r] = SetSeed(@, seed_config.seed)]
    /\ seed_pc' = [seed_pc EXCEPT ![r] = "add_lora"]
    /\ UNCHANGED <<seed_config, entropy, draws, seed_batches>>

\* Lines 680-692 (with 217-223): the adapters are created with random weights.
RunAddLora(r) ==
    /\ seed_pc[r] = "add_lora"
    /\ SeedDraw(r, <<"lora_init">>)
    /\ seed_pc' = [seed_pc EXCEPT ![r] = "epoch"]
    /\ UNCHANGED <<seed_config, entropy, seed_batches>>

\* Lines 880-886: an epoch starts; iterating the data loader (shuffle=True,
\* line 484) draws the order of the epoch.
RunEpochStart(r) ==
    /\ seed_pc[r] = "epoch"
    /\ SeedDraw(r, <<"shuffle">>)
    /\ seed_pc' = [seed_pc EXCEPT ![r] = "batch"]
    /\ UNCHANGED <<seed_config, entropy, seed_batches>>

\* Lines 886-1011: one micro-batch, which with gradient_accumulation_steps
\* = 1 is one global step.
RunMicroBatch(r) ==
    /\ seed_pc[r] = "batch"
    /\ SeedDraw(r, BatchSites(seed_config))
    /\ seed_batches' = [seed_batches EXCEPT ![r] = @ + 1]
    /\ seed_pc' = [seed_pc EXCEPT ![r] =
                       IF seed_batches[r] + 1 >= seed_config.max_train_steps
                          \/ (seed_batches[r] + 1) % seed_config.loader_len = 0
                       THEN "epoch_end" ELSE "batch"]
    /\ UNCHANGED <<seed_config, entropy>>

\* Lines 1029-1048 with 584-598: validation draws from a generator of its
\* own, not from the global ones; then the next epoch or the end.
RunEpochEnd(r) ==
    /\ seed_pc[r] = "epoch_end"
    /\ IF seed_config.validation_prompts > 0
       THEN draws' = [draws EXCEPT ![r] =
                         Append(@, [site |-> "validation",
                                    value |-> Output(ValidationGenerator(
                                                         seed_config.seed))])]
       ELSE UNCHANGED draws
    /\ seed_pc' = [seed_pc EXCEPT ![r] =
                       IF seed_batches[r] >= seed_config.max_train_steps
                       THEN "done" ELSE "epoch"]
    /\ UNCHANGED <<seed_config, entropy, generators, seed_batches>>

NextSeed ==
    \/ RunSetSeed(CurrentRun) /\ UNCHANGED <<runvars, ckvars, loravars, captionvars>>
    \/ RunAddLora(CurrentRun) /\ UNCHANGED <<runvars, ckvars, loravars, captionvars>>
    \/ RunEpochStart(CurrentRun) /\ UNCHANGED <<runvars, ckvars, loravars, captionvars>>
    \/ RunMicroBatch(CurrentRun) /\ UNCHANGED <<runvars, ckvars, loravars, captionvars>>
    \/ RunEpochEnd(CurrentRun) /\ UNCHANGED <<runvars, ckvars, loravars, captionvars>>

SpecSeed == InitSeed /\ [][NextSeed]_vars


\* The m largest elements of a set of numbers (all of it when it has fewer).
LargestOf(S, m) == {i \in S : Cardinality({j \in S : j > i}) < m}

\* The checkpoint entries of a prefix in the directory, as their parsed indices.
RetainedIndices(prefix) == {SortKey(d) : d \in CheckpointsOf(ck_dir, prefix)}

\* C1: after the K-th save for a prefix with a configured maximum M, the
\* directory holds exactly min(K, M) entries of that prefix.
C1_RetentionCount ==
    (ck_pc = "idle" /\ ~IsNone(ck_max)) =>
        \A prefix \in Prefixes :
            Cardinality(ck_written[prefix]) >= 1 =>
                Cardinality(CheckpointsOf(ck_dir, prefix))
                    = Min(Cardinality(ck_written[prefix]), IntOf(ck_max))

\* C2: after every save the retained entries of a prefix are exactly the M
\* largest indices ever written for it (all of them when fewer were written).
C2_RetentionSet ==
    (ck_pc = "idle" /\ ~IsNone(ck_max)) =>
        \A prefix \in Prefixes :
            /\ RetainedIndices(prefix) = LargestOf(ck_written[prefix], IntOf(ck_max))
            /\ Cardinality(CheckpointsOf(ck_dir, prefix))
                   = Cardinality(RetainedIndices(prefix))


(***************************************************************************)
(* Properties of run_lora_training.                                        *)
(***************************************************************************)
PreDatasetStages ==
    {"makedirs", "init_accelerator", "check_accumulation", "write_config", "load_models", "add_lora",
     "init_optimizer", "init_dataset"}

BothUnset == train_config.dataset_name = "None" /\ train_config.dataset_dir = "None"

BothSet == train_config.dataset_name # "None" /\ train_config.dataset_dir # "None"

DatasetError(p) == pc[p] = "error" /\ error[p].about = "dataset"

InvalidPrediction ==
    train_config.prediction_type \notin {"None", "epsilon", "v_prediction"}

\* C3: a single-process run that ends has global_step = max_train_steps, the
\* global step never exceeds it, and once global_step has reached
\* max_train_steps no further micro-batch is fetched, no backward pass is run
\* and no optimizer step is taken.
C3_ExactStopAtMaxSteps ==
    /\ [](num_processes = 1 =>
            /\ global_step[0] <= train_config.max_train_steps
            /\ (pc[0] = "done" => global_step[0] = train_config.max_train_steps))
    /\ [][(num_processes = 1 /\ global_step[0] = train_config.max_train_steps) =>
            /\ batches'[0] = batches[0]
            /\ backwards'[0] = backwards[0]
            /\ optimizer_steps'[0] = optimizer_steps[0]]_vars

C3_Witness ==
    /\ num_processes = 1
    /\ pc[0] = "done"
    /\ train_config.gradient_accumulation_steps = 2
    /\ global_step[0] = 2
    /\ batches[0] > 2

\* C4: with neither dataset_name nor dataset_dir set, no process gets past
\* _initialize_dataset other than by its ValueError, no dataset is loaded and
\* no batch is fetched or trained on.
C4_BothUnsetFails ==
    BothUnset =>
        \A p \in Active :
            /\ pc[p] \in PreDatasetStages \cup {"error"}
            /\ "dataset" \notin loaded[p]
            /\ dataset_source[p] = "none"
            /\ batches[p] = 0 /\ losses[p] = 0 /\ backwards[p] = 0
            /\ (pc[p] = "error" /\ "optimizer" \in loaded[p]) =>
                   (error[p].type = "ValueError" /\ error[p].about = "dataset")

C4_Witness == BothUnset /\ \E p \in Active : DatasetError(p)

\* C5 as claimed: with both dataset_name and dataset_dir set, initialization
\* fails and no batch is ever fetched.
C5_BothSetFails ==
    BothSet =>
        \A p \in Active :
            /\ pc[p] \in PreDatasetStages \cup {"error"}
            /\ batches[p] = 0

\* C6 as claimed: when the dataset source error is raised, no model has been
\* loaded, no adapter injected and no optimizer constructed.
C6_DatasetErrorBeforeModels ==
    \A p \in Active :
        DatasetError(p) => loaded[p] \cap {"models", "lora", "optimizer"} = {}

\* C6 amended: the dataset source error is raised after the models are
\* loaded, the adapters injected and the optimizer constructed, and before
\* the data loader exists and before any batch.
C6_DatasetErrorAfterModels ==
    \A p \in Active :
        DatasetError(p) =>
            /\ {"models", "lora", "optimizer"} \subseteq loaded[p]
            /\ "dataset" \notin loaded[p]
            /\ batches[p] = 0

C6_Witness ==
    \E p \in Active : DatasetError(p) /\ loaded[p] = {"models", "lora", "optimizer"}

\* The checkpoint point of a process that is inside _save_checkpoint.
SavePoint(p) ==
    IF pc[p] = "step_save" THEN <<"step", global_step[p]>>
    ELSE <<"epoch", epoch[p] + 1>>

\* C7: _save_checkpoint is executed by the main process only, and only after
\* every process of the run has entered the barrier of that checkpoint point.
C7_CheckpointWriteDiscipline ==
    \A p \in Active :
        pc[p] \in {"step_save", "epoch_save"} =>
            /\ p = MainProcess
            /\ \A q \in Active : barrier_point[q] = SavePoint(p)

\* C8: no process other than the main one is past a checkpoint or validation
\* point (in a later epoch, or past a step whose checkpoint is due) while some
\* process has not yet left that point through a barrier.
C8_BarrierForOthers ==
    \A q \in Active \ {MainProcess} : \A p \in Active :
        /\ (/\ pc[p] \notin {"error", "hung", "done"}
            /\ epoch[q] > epoch[p]
            /\ \E e \in epoch[p]..(epoch[q] - 1) : EpochSaveDue(e) \/ ValidationDue(e))
               => FALSE
        /\ (/\ pc[p] \notin {"error", "hung", "done"}
            /\ pc[q] \notin {"step_barrier", "error", "hung"}
            /\ global_step[q] >= 1
            /\ StepSaveDue(global_step[q])
            /\ epoch[q] = epoch[p])
               => global_step[p] >= global_step[q]

\* C9: only the main process creates or writes anything under the output
\* directory, and all processes use the same output directory.
C9_SingleWriter ==
    /\ wrote \subseteq {MainProcess}
    /\ \A p, q \in Active :
           (out_dir[p] # NoDir /\ out_dir[q] # NoDir) => out_dir[p] = out_dir[q]

\* C10: with prediction_type set to a string other than 'epsilon' and
\* 'v_prediction', no loss is computed, no backward pass or optimizer step is
\* run, global_step stays 0, and a process that fetched its first batch has
\* raised a ValueError carrying that string.
C10_InvalidPredictionType ==
    InvalidPrediction =>
        \A p \in Active :
            /\ losses[p] = 0 /\ backwards[p] = 0 /\ optimizer_steps[p] = 0
            /\ global_step[p] = 0
            /\ pc[p] # "done"
            /\ batches[p] >= 1 =>
                   /\ pc[p] = "error"
                   /\ error[p] = [type |-> "ValueError", about |-> "prediction_type",
                                  value |-> train_config.prediction_type]

C10_Witness ==
    /\ InvalidPrediction
    /\ \E p \in Active : pc[p] = "error" /\ error[p].about = "prediction_type"

(***************************************************************************)
(* Properties of the startup: model resolution, the accumulation check,    *)
(* frozen base weights, the configuration object, the precision mode.      *)
(***************************************************************************)
PreLoadStages ==
    {"makedirs", "init_accelerator", "check_accumulation", "write_config",
     "load_models"}

\* The registry entries named exactly like the trailing component of the model.
ExactEntries ==
    {i \in 1..Len(known_models) :
         known_models[i].name = ModelName(train_config.model)}

\* C11: _load_models resolves the model only to a registry entry whose name
\* equals the trailing path component of train_config.model; without such an
\* entry the process fails at the lookup and loads no sub-model.
C11_ExactNameResolution ==
    \A p \in Active :
        /\ model_meta[p] # NoModel =>
               model_meta[p].name = ModelName(train_config.model)
        /\ ExactEntries = {} =>
               /\ "models" \notin loaded[p]
               /\ model_meta[p] = NoModel
               /\ pc[p] \in PreLoadStages \cup {"error"}

ConflictingAccumulation ==
    /\ train_config.train_text_encoder
    /\ train_config.gradient_accumulation_steps > 1
    /\ num_processes > 1

\* C12: the run aborts at the accumulation check, before any model is loaded
\* and before any batch, exactly when the text encoder is trained with
\* gradient_accumulation_steps > 1 on more than one process.
C12_AccumulationConflict ==
    \A p \in Active :
        /\ ConflictingAccumulation =>
               /\ pc[p] \in {"makedirs", "init_accelerator", "check_accumulation", "error"}
               /\ loaded[p] = {}
               /\ batches[p] = 0
               /\ (pc[p] = "error" /\ error[p].type # "FileExistsError") =>
                      (error[p].type = "ValueError"
                           /\ error[p].about = "gradient_accumulation")
        /\ error[p].about = "gradient_accumulation" => ConflictingAccumulation
        /\ (~ConflictingAccumulation /\ pc[p] = "error") =>
               error[p].about # "gradient_accumulation"

C12_Witness ==
    \E p \in Active :
        /\ pc[p] = "error"
        /\ error[p].about = "gradient_accumulation"
        /\ loaded[p] = {}

\* C13: once _load_models has returned, every base parameter of the text
\* encoder, the autoencoder and the denoising network has requires_grad
\* False, and only LoRA parameters require gradients.
C13_BaseWeightsFrozen ==
    \A p \in Active :
        "models" \in loaded[p] =>
            /\ BaseParams(BaseModules) \subseteq params[p].frozen
            /\ params[p].trainable \cap BaseParams(BaseModules) = {}
            /\ params[p].trainable
                   \subseteq LoraParams("unet") \cup LoraParams("text_encoder")

C13_Witness ==
    /\ train_config.train_text_encoder
    /\ pc[MainProcess] = "done"
    /\ optimizer_steps[MainProcess] >= 2
    /\ epoch[MainProcess] >= 1
    /\ ValidationDir \in fs[out_dir[MainProcess]]
    /\ {"unet", "text_encoder"} \subseteq params[MainProcess].training
    /\ params[MainProcess].trainable
           = LoraParams("unet") \cup LoraParams("text_encoder")

\* C14: the configuration is assigned at most once, only its learning_rate,
\* only with scale_lr set and before the optimizer is built, to
\* learning_rate * gradient_accumulation_steps * train_batch_size *
\* num_processes; no other field ever changes, and without scale_lr nothing
\* changes.
C14_ConfigImmutability ==
    /\ [][train_config' = train_config]_vars
    /\ [][\A p \in Procs :
             (learning_rate'[p] # learning_rate[p]
                  \/ config_writes'[p] # config_writes[p]) =>
                 /\ train_config.scale_lr
                 /\ pc[p] = "init_optimizer"
                 /\ "optimizer" \notin loaded[p]
                 /\ config_writes[p] = 0
                 /\ config_writes'[p] = 1
                 /\ learning_rate'[p] =
                        train_config.learning_rate
                            * train_config.gradient_accumulation_steps
                            * train_config.train_batch_size * num_processes]_vars
    /\ [](\A p \in Active :
             /\ config_writes[p] <= 1
             /\ (~train_config.scale_lr) =>
                    (learning_rate[p] = train_config.learning_rate
                         /\ config_writes[p] = 0))

C14_Witness ==
    /\ train_config.scale_lr
    /\ num_processes = 2
    /\ train_config.gradient_accumulation_steps = 2
    /\ train_config.train_batch_size = 2
    /\ pc[MainProcess] = "done"
    /\ config_writes[MainProcess] = 1
    /\ learning_rate[MainProcess] = 8 * train_config.learning_rate

MappedModes == {"None", "no", "fp16", "bf16"}

\* C16: the weight type is float32 for an unset mode and for 'no', float16
\* for 'fp16', bfloat16 for 'bf16'; any other mode raises
\* NotImplementedError, and in the run that happens before a model is loaded.
C16_MixedPrecisionMapping ==
    \A p \in Active :
        LET mode == train_config.mixed_precision
        IN  /\ weight_dtype[p] # "none" =>
                   /\ mode \in {"None", "no"} => weight_dtype[p] = "float32"
                   /\ mode = "fp16" => weight_dtype[p] = "float16"
                   /\ mode = "bf16" => weight_dtype[p] = "bfloat16"
                   /\ mode \in MappedModes
            /\ (pc[p] \notin PreLoadStages \cup {"error"}) => weight_dtype[p] # "none"
            /\ mode \notin MappedModes =>
                   /\ pc[p] \in PreLoadStages \cup {"error"}
                   /\ loaded[p] = {}
                   /\ model_meta[p] = NoModel
                   /\ params[p] = NoParams
                   /\ (pc[p] = "error" /\ error[p].type # "FileExistsError") =>
                          error[p] = [type |-> "NotImplementedError",
                                      about |-> "mixed_precision", value |-> mode]
            /\ error[p].type = "NotImplementedError" => mode \notin MappedModes

C16_Witness ==
    \E p \in Active :
        /\ error[p].type = "NotImplementedError"
        /\ error[p].value = "fp8"
        /\ loaded[p] = {}

(***************************************************************************)
(* Properties of add_lora_to_unet_attention_layers.                        *)
(***************************************************************************)
\* C15: every adapter created for 'down_blocks.i' has hidden size
\* block_out_channels[i], for 'up_blocks.i' reversed(block_out_channels)[i],
\* for 'mid_block' the last channel value, for every block index i of the
\* channel list; its cross-attention dimension is None exactly when the name
\* ends in 'attn1.processor', the network's cross_attention_dim otherwise.
C15_HiddenSizeRule ==
    \A k \in 1..Len(unet_lora_attn_procs) :
        LET proc == unet_lora_attn_procs[k]
            n == Len(block_out_channels)
        IN  /\ proc.name = attn_processor_names[k]
            /\ \A i \in 0..(n - 1), attn \in AttnSuffixes :
                   /\ proc.name = AttnName("down_blocks", i, attn) =>
                          proc.hidden_size = block_out_channels[i + 1]
                   /\ proc.name = AttnName("up_blocks", i, attn) =>
                          proc.hidden_size = block_out_channels[n - i]
                   /\ proc.name = AttnName("mid_block", 0, attn) =>
                          proc.hidden_size = block_out_channels[n]
            /\ IsNone(proc.cross_attention_dim)
                   <=> proc.name[Len(proc.name)] = "attn1.processor"
            /\ ~IsNone(proc.cross_attention_dim) =>
                   proc.cross_attention_dim = SomeInt(CrossAttentionDim)

(***************************************************************************)
(* Properties of tokenize_captions.                                        *)
(***************************************************************************)
StringOrList(caption) == caption.type \in {"str", "list", "ndarray"}

\* The caption selected for example k follows the rule of its type.
SelectionRule(k) ==
    LET caption == examples[k]
    IN  /\ caption.type = "str" => captions[k] = caption.items[1]
        /\ (caption.type # "str" /\ is_train) =>
               \E j \in 1..Len(caption.items) : captions[k] = caption.items[j]
        /\ (caption.type # "str" /\ ~is_train) => captions[k] = caption.items[1]

\* C17 as claimed: a batch of strings and lists/arrays of strings is
\* tokenized without error, one caption per example in order, chosen by the
\* selection rule; a value of another type raises ValueError and nothing is
\* returned.
C17_CaptionExtraction ==
    LET good == \A k \in 1..Len(examples) : StringOrList(examples[k])
    IN  /\ good => tc_pc # "error"
        /\ \A k \in 1..Len(captions) : SelectionRule(k)
        /\ tc_pc = "returned" =>
               /\ good
               /\ Len(captions) = Len(examples)
               /\ input_ids = TokenizerInputIds(captions)
        /\ ~good =>
               /\ tc_pc # "returned"
               /\ input_ids = <<>>
               /\ tc_pc = "error" => tc_error = "ValueError"

\* The first example the loop cannot take a caption from.
FirstOffending ==
    CHOOSE k \in 1..Len(examples) :
        /\ CaptionError(examples[k]) # "none"
        /\ \A j \in 1..(k - 1) : CaptionError(examples[j]) = "none"

\* C17 amended: the batch is tokenized without error when every caption is a
\* string or a non-empty list/array of strings; otherwise the first
\* offending example ends the call with nothing returned, by ValueError for
\* a value of another type and by IndexError for an empty list/array.
C17_CaptionExtractionNonEmpty ==
    LET good == \A k \in 1..Len(examples) :
                    /\ StringOrList(examples[k])
                    /\ Len(examples[k].items) >= 1
    IN  /\ good => tc_pc # "error"
        /\ \A k \in 1..Len(captions) : SelectionRule(k)
        /\ tc_pc = "returned" =>
               /\ good
               /\ Len(captions) = Len(examples)
               /\ input_ids = TokenizerInputIds(captions)
        /\ ~good =>
               /\ tc_pc # "returned"
               /\ input_ids = <<>>
               /\ Len(captions) < FirstOffending
               /\ tc_pc = "error" =>
                      /\ Len(captions) = FirstOffending - 1
                      /\ StringOrList(examples[FirstOffending]) =>
                             tc_error = "IndexError"
                      /\ ~StringOrList(examples[FirstOffending]) =>
                             tc_error = "ValueError"

C17_Witness ==
    /\ tc_pc = "returned"
    /\ is_train
    /\ Len(examples) = 2
    /\ examples[1].type = "list"
    /\ examples[2].type = "str"
    /\ captions = <<"a puppy", "a cat">>
    /\ input_ids = <<<<"ids", "a puppy">>, <<"ids", "a cat">>>>

(***************************************************************************)
(* Properties of the random draws of two runs.                             *)
(***************************************************************************)
\* The values a run drew by one statement, in the order drawn.
DrawsOf(r, site) ==
    SelectSeq(draws[r], LAMBDA d : d.site = site)

\* C18: two runs on the same configuration, with a seed, and the same
\* dataset sample step for step the same noise and the same timesteps,
\* whatever state their generators started in; and so does every other
\* draw of the run: none comes from a generator the seed did not fix.
C18_SeededDeterminism ==
    ~IsNone(seed_config.seed) =>
        /\ \A k \in 1..Min(Len(draws[1]), Len(draws[2])) : draws[1][k] = draws[2][k]
        /\ \A site \in {"randn_like", "randn", "randint"} :
               \A k \in 1..Min(Len(DrawsOf(1, site)), Len(DrawsOf(2, site))) :
                   DrawsOf(1, site)[k] = DrawsOf(2, site)[k]

C18_Witness ==
    /\ seed_config.seed = SomeInt(2)
    /\ seed_config.noise_offset # 0
    /\ seed_config.caption_lists
    /\ seed_config.validation_prompts > 0
    /\ \A r \in Runs : seed_pc[r] = "done" /\ seed_batches[r] = MaxSeedBatches
    /\ \A src \in DrawnSources :
           /\ entropy[1][src] # entropy[2][src]
           /\ entropy[1][src] # ManualSeed(2)
    /\ Len(DrawsOf(2, "randint")) = MaxSeedBatches
    /\ draws[1] = draws[2]

(***************************************************************************)
(* Properties of the training loop: accumulation, the running loss.        *)
(***************************************************************************)
Has(seq, x) == \E i \in 1..Len(seq) : seq[i] = x

Before(seq, x, y) ==
    \E i, j \in 1..Len(seq) : i < j /\ seq[i] = x /\ seq[j] = y

\* What C19 says of one micro-batch of process p, given whether it
\* completes a group.
AccumulationRule(p, completing) ==
    /\ completing <=> global_step'[p] = global_step[p] + 1
    /\ completing <=> optimizer_steps'[p] = optimizer_steps[p] + 1
    /\ completing <=> Has(ops'[p], "optimizer.step")
    /\ (~completing) =>
           /\ global_step'[p] = global_step[p]
           /\ optimizer_steps'[p] = optimizer_steps[p]
           /\ scheduler_steps'[p] = scheduler_steps[p]
           /\ grads'[p] = grads[p] + 1
           /\ ops'[p] = <<"backward">>
    /\ completing =>
           /\ scheduler_steps'[p] > scheduler_steps[p]
           /\ grads'[p] = 0
           /\ Before(ops'[p], "backward", "optimizer.step")
           /\ Before(ops'[p], "optimizer.step", "lr_scheduler.step")
           /\ Before(ops'[p], "lr_scheduler.step", "zero_grad")
    /\ Has(ops'[p], "clip_grad_norm_") <=>
           (completing /\ ~IsNone(train_config.max_grad_norm))
    /\ Has(ops'[p], "clip_grad_norm_") =>
           /\ Before(ops'[p], "backward", "clip_grad_norm_")
           /\ Before(ops'[p], "clip_grad_norm_", "optimizer.step")

\* C19 as claimed: the optimizer step, and with it the increment of
\* global_step, happens on exactly the micro-batches that are the N-th of a
\* group of N = gradient_accumulation_steps consecutive micro-batches; the
\* other micro-batches leave optimizer, scheduler and global_step alone and
\* keep the gradients; clipping happens only on the completing micro-batch,
\* before the optimizer step, and the gradients are zeroed after it.
C19_StepEveryNMicroBatches ==
    /\ [](\A p \in Active : optimizer_steps[p] = global_step[p])
    /\ [][\A p \in Procs :
             /\ global_step'[p] # global_step[p] => backwards'[p] = backwards[p] + 1
             /\ backwards'[p] # backwards[p] =>
                    AccumulationRule(p,
                        grads[p] + 1 = train_config.gradient_accumulation_steps)]_vars

\* C19 amended: a group is completed by the N-th micro-batch since the last
\* optimizer step and also by the last micro-batch of the data loader, so
\* the last group of an epoch can hold fewer than N micro-batches.
C19_StepEveryNOrAtEpochEnd ==
    /\ [](\A p \in Active :
             /\ optimizer_steps[p] = global_step[p]
             /\ grads[p] < train_config.gradient_accumulation_steps)
    /\ [][\A p \in Procs :
             /\ global_step'[p] # global_step[p] => backwards'[p] = backwards[p] + 1
             /\ backwards'[p] # backwards[p] =>
                    AccumulationRule(p,
                        \/ grads[p] + 1 = train_config.gradient_accumulation_steps
                        \/ step[p] = loader_len - 1)]_vars

C19_Witness ==
    /\ train_config.gradient_accumulation_steps = 2
    /\ ~IsNone(train_config.max_grad_norm)
    /\ loader_len = 1
    /\ pc[MainProcess] = "done"
    /\ global_step[MainProcess] = 2
    /\ backwards[MainProcess] = 2
    /\ ops[MainProcess] = <<"backward", "clip_grad_norm_", "optimizer.step",
                            "lr_scheduler.step", "zero_grad">>

\* The micro-batches process p had done at its g-th optimizer step.
Mark(p, g) == IF g = 0 THEN 0 ELSE step_marks[p][g]

\* The sum of avg_loss / gradient_accumulation_steps over the micro-batches
\* a+1 .. b of process p.
RECURSIVE ShareSum(_, _, _)
ShareSum(p, a, b) ==
    IF b <= a THEN 0
    ELSE ShareSum(p, a, b - 1)
             + (loss_hist[p][b] \div train_config.gradient_accumulation_steps)

\* C20: the train_loss logged at global step g is the sum of
\* avg_loss / gradient_accumulation_steps over exactly the micro-batches
\* since step g - 1; the first log is at step 1; the running loss is what
\* the micro-batches since the last log added, so it is zero right after a
\* log; and nothing is pending when an epoch or the run ends, so no
\* micro-batch is counted twice or dropped.
C20_RunningLoss ==
    \A p \in Active :
        /\ Len(logged[p]) = global_step[p]
        /\ Len(step_marks[p]) = global_step[p]
        /\ Len(loss_hist[p]) \in {backwards[p], backwards[p] + 1}
        /\ Len(loss_hist[p]) = backwards[p] + 1 =>
               pc[p] \in {"all_reduce", "backward", "hung"}
        /\ pc[p] \in {"all_reduce", "backward"} => Len(loss_hist[p]) = backwards[p] + 1
        /\ \A g \in 1..Len(logged[p]) :
               /\ Mark(p, g - 1) < Mark(p, g)
               /\ logged[p][g] = ShareSum(p, Mark(p, g - 1), Mark(p, g))
        /\ train_loss[p] =
               ShareSum(p, Mark(p, Len(step_marks[p])), Len(loss_hist[p]))
        /\ pc[p] \in {"epoch_end", "epoch_barrier", "epoch_save", "validation", "done"} =>
               /\ Mark(p, Len(step_marks[p])) = Len(loss_hist[p])
               /\ train_loss[p] = 0
        /\ num_processes = 1 =>
               \A k \in 1..Len(loss_hist[p]) : loss_hist[p][k] = LossOf(p, k)

C20_Witness ==
    /\ num_processes = 1
    /\ train_config.gradient_accumulation_steps = 2
    /\ loader_len = 2
    /\ pc[0] = "done"
    /\ epoch[0] = 1
    /\ loss_hist[0] = <<72, 36, 72, 36>>
    /\ logged[0] = <<54, 54>>
    /\ train_loss[0] = 0

(***************************************************************************)
(* Properties of a failed add_lora_to_unet_attention_layers.               *)
(***************************************************************************)
\* A name that starts with none of 'mid_block', 'up_blocks', 'down_blocks'.
UnexpectedProcessorName(name) ==
    name[1] \notin {"mid_block", "up_blocks", "down_blocks"}

\* C25: the loop never passes a processor whose name is in none of the three
\* block groups: it ends with a fatal error there, and the processors of the
\* network are then, as during the whole loop, exactly the ones it had
\* before the call, however many valid names were visited first; processors
\* are replaced only when every name was valid.
C25_FailedInjectionLeavesNetwork ==
    /\ \A k \in 1..Len(unet_lora_attn_procs) :
           ~UnexpectedProcessorName(attn_processor_names[k])
    /\ lora_pc = "error" =>
           /\ UnexpectedProcessorName(
                  attn_processor_names[Len(unet_lora_attn_procs) + 1])
           /\ unet_attn_processors =
                  OriginalProcessors(attn_processor_names, attn_processor_classes)
    /\ lora_pc = "loop" =>
           unet_attn_processors =
               OriginalProcessors(attn_processor_names, attn_processor_classes)
    /\ lora_pc = "set" =>
           /\ \A k \in 1..Len(attn_processor_names) :
                  ~UnexpectedProcessorName(attn_processor_names[k])
           /\ \A k \in 1..Len(attn_processor_names) :
                  /\ unet_attn_processors[k].name = attn_processor_names[k]
                  /\ unet_attn_processors[k].class =
                         LoraAttnProcessorClass(attn_processor_classes[k], has_sdpa)

C25_Witness ==
    /\ lora_pc = "error"
    /\ Len(unet_lora_attn_procs) >= 1
    /\ Len(attn_processor_names) = Len(unet_lora_attn_procs) + 1
    /\ unet_attn_processors =
           OriginalProcessors(attn_processor_names, attn_processor_classes)

(***************************************************************************)
(* Properties of one _save_checkpoint call on any directory.               *)
(***************************************************************************)
\* The step of a call that lists and evicts, and the step that writes.
EvictionStep == ck_pc = "idle" /\ ck_pc' = "evicted"

WriteStep == ck_pc = "evicted" /\ ck_pc' = "idle"

\* C24: with a maximum M >= 1 and C entries of the call's prefix in the
\* directory, the eviction deletes nothing when C < M and otherwise exactly
\* the C - M + 1 entries of that prefix with the smallest indices, all of
\* them before the new checkpoint exists, so that M - 1 entries of the
\* prefix remain between eviction and write; the write deletes nothing.
C24_EvictionPrecedesWrite ==
    /\ [][(EvictionStep /\ ~IsNone(ck_max) /\ IntOf(ck_max) >= 1) =>
             LET own == CheckpointsOf(ck_dir, ck_prefix')
                 C == Cardinality(own)
                 M == IntOf(ck_max)
                 deleted == ck_dir \ ck_dir'
             IN  /\ ck_dir' \subseteq ck_dir
                 /\ CheckpointName(ck_prefix', ck_idx') \notin ck_dir'
                 /\ C < M => deleted = {}
                 /\ C >= M =>
                        /\ deleted \subseteq own
                        /\ Cardinality(deleted) = C - M + 1
                        /\ \A d \in deleted, e \in own \ deleted :
                               SortKey(d) < SortKey(e)
                        /\ Cardinality(CheckpointsOf(ck_dir', ck_prefix')) = M - 1]_vars
    /\ [][WriteStep =>
             ck_dir' = ck_dir \cup {CheckpointName(ck_prefix, ck_idx)}]_vars

C24_Witness ==
    /\ ck_pc = "evicted"
    /\ ck_max = SomeInt(2)
    /\ ck_prefix = "step"
    /\ ck_written["step"] = {1, 2, 3}
    /\ CheckpointsOf(ck_dir, "step") = {CheckpointName("step", 3)}

\* Every step of a call leaves alone what does not start with the call's
\* full prefix, and the eviction counts the entries of its prefix only.
OtherEntriesUntouched ==
    [][/\ \A d \in ck_dir :
              ~StartsWith(d, FullPrefix(ck_prefix')) => d \in ck_dir'
       /\ (EvictionStep /\ ~IsNone(ck_max)) =>
              /\ (ck_dir \ ck_dir') \subseteq CheckpointsOf(ck_dir, ck_prefix')
              /\ Cardinality(CheckpointsOf(ck_dir, ck_prefix')) < IntOf(ck_max) =>
                     ck_dir' = ck_dir]_vars

\* C26: a call with prefix p counts and deletes only entries that start with
\* 'checkpoint_{p}-': the checkpoints of the other prefix and the other
\* entries of the directory stay; and after a call the directory holds at
\* most the configured maximum of entries of the call's prefix, whatever it
\* holds of the other one.
C26_RetentionPerPrefix ==
    /\ OtherEntriesUntouched
    /\ []((ck_pc = "idle" /\ ck_idx # 0 /\ ~IsNone(ck_max)) =>
              Cardinality(CheckpointsOf(ck_dir, ck_prefix)) <= IntOf(ck_max))

(***************************************************************************)
(* Properties of the checkpoint and validation cadences of the loop.       *)
(***************************************************************************)
\* The step checkpoints in the run directory of the main process.
StepCheckpoints ==
    IF out_dir[MainProcess] = NoDir THEN {}
    ELSE CheckpointsOf(fs[out_dir[MainProcess]], "step")

\* Global step g of the main process calls for a step checkpoint.
StepCheckpointDue(g) ==
    /\ g >= 1
    /\ ~IsNone(train_config.save_every_n_steps)
    /\ g % IntOf(train_config.save_every_n_steps) = 0

\* Every step checkpoint is named after a global step the main process has
\* reached and that calls for one, and a step checkpoint is only written for
\* a global step larger than every one written before it.
StepCheckpointsOnlyWhenDue ==
    /\ \A d \in StepCheckpoints :
           \E g \in 1..global_step[MainProcess] :
               /\ StepCheckpointDue(g)
               /\ d = CheckpointName("step", g)
    /\ pc[MainProcess] = "step_save" =>
           /\ StepCheckpointDue(global_step[MainProcess])
           /\ \A d \in StepCheckpoints : SortKey(d) < global_step[MainProcess]

\* The main process does nothing between the optimizer step that produced a
\* global step calling for a checkpoint and the write of that checkpoint
\* but wait in the barrier of line 993: wherever else it is, and so before
\* it starts its next micro-batch, the checkpoint is written.
StepCheckpointWritten ==
    StepCheckpointDue(global_step[MainProcess]) =>
        \/ pc[MainProcess] \in {"step_barrier", "step_save", "hung"}
        \/ CheckpointName("step", global_step[MainProcess]) \in StepCheckpoints

\* A step that adds a step checkpoint is the _save_checkpoint call of the
\* main process at lines 995-1002: it adds the one checkpoint of the current
\* global step and leaves the call site.
StepCheckpointWriteRule ==
    \A d \in StepCheckpoints' \ StepCheckpoints :
        /\ pc[MainProcess] = "step_save"
        /\ pc'[MainProcess] # "step_save"
        /\ d = <<"checkpoint_", "step", "-">>
                 \o ZeroPad(Str(global_step[MainProcess]), PadWidth)
        /\ Len(d) = 3 + PadWidth

\* C21: with save_every_n_steps = n, a step checkpoint is written exactly
\* once for each global step g >= 1 with g mod n = 0 and for no other step,
\* under the name 'checkpoint_step-' and g padded to 8 digits, after the
\* optimizer step that produced g and before the main process starts its
\* next micro-batch.
C21_StepCadenceCheckpoints ==
    /\ [](StepCheckpointsOnlyWhenDue /\ StepCheckpointWritten)
    /\ [][StepCheckpointWriteRule]_vars

C21_Witness ==
    /\ num_processes = 2
    /\ train_config.save_every_n_steps = SomeInt(2)
    /\ train_config.gradient_accumulation_steps = 2
    /\ \A p \in Active : pc[p] = "done" /\ global_step[p] = 2
    /\ StepCheckpoints = {CheckpointName("step", 2)}

\* The entries of the run directory of the main process.
MainDir ==
    IF out_dir[MainProcess] = NoDir THEN {} ELSE fs[out_dir[MainProcess]]

\* The epochs (counted from 1) whose end-of-epoch checkpoint point, and
\* whose validation point, the main process has left.
SavedThrough ==
    IF pc[MainProcess] \in {"validation", "done"} THEN epoch[MainProcess] + 1
    ELSE epoch[MainProcess]

ValidatedThrough ==
    IF pc[MainProcess] = "done" THEN epoch[MainProcess] + 1 ELSE epoch[MainProcess]

\* The main process waits at the barrier of an epoch checkpoint that the
\* other processes never enter: it hangs there, or they have ended.
EpochCheckpointNeverWritten ==
    /\ barrier_point[MainProcess] = <<"epoch", epoch[MainProcess] + 1>>
    /\ CheckpointName("epoch", epoch[MainProcess] + 1) \notin MainDir
    /\ \/ pc[MainProcess] = "hung"
       \/ /\ pc[MainProcess] = "epoch_barrier"
          /\ num_processes > 1
          /\ \A q \in Active \ {MainProcess} : pc[q] \in {"done", "error"}

\* C22: at the end of every epoch e, counted from 1 and including the one
\* the break at max_train_steps cut short, the epoch checkpoint e is written
\* iff save_every_n_epochs is set and divides e, validation runs iff there
\* is a validation prompt and validate_every_n_epochs divides e, the
\* checkpoint comes before the validation, and then the next epoch starts or
\* the run ends, which it does only with global_step >= max_train_steps.
C22_EndOfEpochActions ==
    /\ pc[MainProcess] # "hung" =>
           /\ \A e \in 1..SavedThrough :
                  EpochSaveDue(e - 1) =>
                      \E d \in CheckpointsOf(MainDir, "epoch") : SortKey(d) >= e
           /\ IsNone(train_config.max_checkpoints) =>
                  \A e \in 1..SavedThrough :
                      EpochSaveDue(e - 1) <=> CheckpointName("epoch", e) \in MainDir
           /\ \A d \in CheckpointsOf(MainDir, "epoch") :
                  \E e \in 1..SavedThrough :
                      EpochSaveDue(e - 1) /\ d = CheckpointName("epoch", e)
           /\ ValidationDir \in MainDir <=>
                  \E e \in 1..ValidatedThrough : ValidationDue(e - 1)
           /\ pc[MainProcess] = "validation" => ValidationDue(epoch[MainProcess])
           /\ pc[MainProcess] = "epoch_save" => EpochSaveDue(epoch[MainProcess])
    /\ \A p \in Active :
           pc[p] = "done" => global_step[p] >= train_config.max_train_steps
    /\ ~EpochCheckpointNeverWritten

\* C22 in a run of one process.
C22_SingleProcess == num_processes = 1 => C22_EndOfEpochActions

\* C23: in a run in which no process raises, every process reaches the end
\* of training: as long as some process has not, some process can take a
\* step, and no process is blocked for good inside a collective.
C23_DistributedTermination ==
    \/ \E p \in Active : pc[p] = "error"
    \/ \A p \in Active : pc[p] = "done"
    \/ /\ \A p \in Active : pc[p] # "hung"
       /\ ENABLED Next

\* C23 in a run of one process.
C23_SingleProcess == num_processes = 1 => C23_DistributedTermination

\* C23 in a run without the epoch-cadence checkpoint.
C23_WithoutEpochCheckpoints ==
    IsNone(train_config.save_every_n_epochs) => C23_DistributedTermination

====
